---- MODULE Spec2Model ----
(***************************************************************************)
(* Round-table engine of the analyst panel (src/src/round_table/engine.py) *)
(* as a state machine: simulate_round_table and the functions it calls;    *)
(* the workflow graph (src/src/main.py) and the analyst wrappers           *)
(* (src/src/agents) with their scoring evaluators.                         *)
(*                                                                         *)
(* An utterance of the transcript is a record [phase, speaker, src]; the   *)
(* transcript string, whose utterances are joined by blank lines, is the   *)
(* sequence of its utterances.  A confidence is an exact fraction          *)
(* [num, den] in lowest terms (Python computes total / count).             *)
(***************************************************************************)
EXTENDS Integers, Sequences, FiniteSets, TLC

VARIABLES
    pc,                \* position in simulate_round_table / the function under study
    ticker_signals,    \* the ticker's signal map, in insertion order
    analysts,          \* setup_analysts' result: persona names, in order
    idx,               \* index of the opening-positions loop
    full_transcript,   \* sequence of utterances
    conversation_turns,\* utterances of phases 2..4 not yet joined to the transcript
    questions,         \* result of the questioning round
    primary_debaters,  \* select_primary_debaters' result
    final_analysis,    \* the verdict returned by generate_final_analysis
    output,            \* the RoundTableOutput returned
    faults,            \* number of calls that raised so far in this run
    fa_env,            \* outcome of the LLM for one generate_final_analysis call
    fa_run,            \* what one generate_final_analysis call did
    selected_analysts, \* the argument of create_workflow
    workflow,          \* the graph built by create_workflow: nodes and edges
    executed,          \* the nodes the compiled graph has run, and those due to run
    agent_input,       \* what the data providers return to one analyst wrapper
    agent_result,      \* the analyses and the signal of one analyst wrapper
    analyst_signals,   \* state["data"]["analyst_signals"] of one workflow run
    tool_input,        \* the arguments of one call of a function of the tools
    tool_result,       \* what that call returned
    websocket_clients, \* webui2.websocket_clients: the list of connected sockets
    disconnected,      \* the sockets whose client has gone
    handlers,          \* position of the logs handler of each socket
    broadcast          \* the request thread in broadcast_log: position, copy, index

vars == <<pc, ticker_signals, analysts, idx, full_transcript, conversation_turns,
          questions, primary_debaters, final_analysis, output, faults, fa_env, fa_run,
          selected_analysts, workflow, executed, agent_input, agent_result,
          analyst_signals, tool_input, tool_result,
          websocket_clients, disconnected, handlers, broadcast>>

\* the variables of the workflow graph and of the analyst wrappers
pipeline_vars ==
    <<selected_analysts, workflow, executed, agent_input, agent_result, analyst_signals>>

\* the variables of the web server's log sockets
web_vars == <<websocket_clients, disconnected, handlers, broadcast>>

\* the variables of a call of a function on its own, and those of the web server
tool_vars == <<tool_input, tool_result, web_vars>>

-----------------------------------------------------------------------------
(* Bounds of the model *)

\* entries of a ticker's signal map in a round table
MaxSignals == 4
\* entries of a signal map handed to select_primary_debaters alone
MaxDebaterKeys == 5
\* entries of a signal map handed to the signal-vote fallback alone
MaxVotes == 3
\* entries of a signal map handed to generate_final_analysis alone
MaxFinalSignals == 2
\* calls that raise within one round table
MaxFaults == 1
\* consecutive rate-limit errors the LLM may answer with
MaxRateLimited == 5
\* fields of the LLM's verdict that are absent or of the wrong type
MaxDefects == 1

-----------------------------------------------------------------------------
(* Small arithmetic *)

Max(a, b) == IF a >= b THEN a ELSE b

Min(a, b) == IF a <= b THEN a ELSE b

RECURSIVE GCD(_, _)
GCD(a, b) == IF b = 0 THEN a ELSE GCD(b, a % b)

\* the fraction n / d (d > 0) in lowest terms
Frac(n, d) == LET g == GCD(n, d) IN [num |-> n \div g, den |-> d \div g]

FracLess(x, y) == x.num * y.den < y.num * x.den

RECURSIVE Pow2(_)
Pow2(n) == IF n = 0 THEN 1 ELSE 2 * Pow2(n - 1)

Range(s) == {s[i] : i \in DOMAIN s}

IsPrefix(s, t) == Len(s) <= Len(t) /\ SubSeq(t, 1, Len(s)) = s

-----------------------------------------------------------------------------
(* Signals and signal maps *)

Signals == {"bullish", "bearish", "neutral"}

\* the insertion order of the three tallies of generate_fallback_analysis
Buckets == <<"bullish", "bearish", "neutral">>

Keys(ts) == {ts[i].agent : i \in DOMAIN ts}

\* ticker_signals[key], for a key of the map
Lookup(ts, key) == ts[CHOOSE i \in DOMAIN ts : ts[i].agent = key]

-----------------------------------------------------------------------------
(* generate_fallback_analysis *)

\* the tally a signal is counted in
Bucket(e) == IF e.signal \in Signals THEN e.signal ELSE "neutral"

signal_counts(ts, s) == Cardinality({i \in DOMAIN ts : Bucket(ts[i]) = s})

RECURSIVE SumConfidence(_, _, _)
SumConfidence(ts, s, i) ==
    IF i = 0 THEN 0
    ELSE SumConfidence(ts, s, i - 1) + (IF Bucket(ts[i]) = s THEN ts[i].confidence ELSE 0)

total_confidence(ts, s) == SumConfidence(ts, s, Len(ts))

\* the entries whose reasoning is collected (longer than 10 characters)
reasonings(ts, s) == SelectSeq(ts, LAMBDA e : Bucket(e) = s /\ e.reasoning = "long")

\* max(signal_counts.items(), key=count): the first bucket with the largest count
MostCommon(ts) ==
    LET best == CHOOSE i \in 1..3 :
                  /\ \A j \in 1..3 : signal_counts(ts, Buckets[j]) <= signal_counts(ts, Buckets[i])
                  /\ \A j \in 1..(i - 1) : signal_counts(ts, Buckets[j]) < signal_counts(ts, Buckets[i])
    IN  Buckets[best]

tied_signals(ts) ==
    SelectSeq(Buckets, LAMBDA s : signal_counts(ts, s) = signal_counts(ts, MostCommon(ts)))

\* total_confidence[s] / max(1, signal_counts[s])
AverageConfidence(ts, s) == Frac(total_confidence(ts, s), Max(1, signal_counts(ts, s)))

\* the last tied bucket with the largest average (a max that keeps the last maximum)
LastHighestAverageOf(ts, tied) ==
    LET best == CHOOSE i \in DOMAIN tied :
                  /\ \A j \in DOMAIN tied :
                        ~FracLess(AverageConfidence(ts, tied[i]), AverageConfidence(ts, tied[j]))
                  /\ \A j \in (i + 1)..Len(tied) :
                        FracLess(AverageConfidence(ts, tied[j]), AverageConfidence(ts, tied[i]))
    IN  tied[best]

\* max(tied_signals, key=average confidence): the first tied bucket with the largest average
HighestAverageOf(ts, tied) ==
    LET best == CHOOSE i \in DOMAIN tied :
                  /\ \A j \in DOMAIN tied :
                        ~FracLess(AverageConfidence(ts, tied[i]), AverageConfidence(ts, tied[j]))
                  /\ \A j \in 1..(i - 1) :
                        FracLess(AverageConfidence(ts, tied[j]), AverageConfidence(ts, tied[i]))
    IN  tied[best]

HighestAverage(ts) == HighestAverageOf(ts, tied_signals(ts))

overall_signal(ts) ==
    IF Len(tied_signals(ts)) > 1 THEN HighestAverage(ts) ELSE MostCommon(ts)

\* the winning bucket's confidences averaged over all the signals
confidence_over_all(ts) ==
    Frac(total_confidence(ts, overall_signal(ts)), Max(1, Len(ts)))

\* total_confidence[s] / signal_counts[s] of the winning bucket, or 50.0
overall_confidence(ts) ==
    IF signal_counts(ts, overall_signal(ts)) > 0
    THEN Frac(total_confidence(ts, overall_signal(ts)), signal_counts(ts, overall_signal(ts)))
    ELSE Frac(50, 1)

generate_fallback_analysis(ts) ==
    LET s == overall_signal(ts) IN
    [ signal |-> s,
      confidence |-> overall_confidence(ts),
      reasoning |-> IF Len(reasonings(ts, s)) > 0
                    THEN "Based on multiple analysts"
                    ELSE "The majority of analysts",
      discussion_summary |-> "The analysis included perspectives",
      consensus_view |-> "The majority view",
      dissenting_opinions |->
          IF \E t \in Signals : t # s /\ signal_counts(ts, t) > 0
          THEN "Dissenting views included"
          ELSE "There were no significant dissenting opinions" ]

-----------------------------------------------------------------------------
(* generate_final_analysis: the LLM's behaviour during one call *)

max_retries == 5

base_delay == 2

TextKeys == {"reasoning", "discussion_summary", "consensus_view", "dissenting_opinions"}

\* JSON values of a response: a text field is a string, null or absent
Text == "llm text"
Null == "null"
Missing == "missing"

\* a confidence as the response gives it: a number, a text that is no number, or absent
JsonNumber(n) == [kind |-> "number", val |-> Frac(n, 1)]
JsonText == [kind |-> "text", val |-> Frac(0, 1)]
JsonMissing == [kind |-> "missing", val |-> Frac(0, 1)]

ResponseFormats == {"fenced", "fenced_list", "bare", "single", "keys", "garbage"}

ResponseSignals == {"bullish", "hold", Missing}

\* a number within 0..100, a number above 100, a text that is no number, absent
ResponseConfidences == {JsonNumber(75), JsonNumber(150), JsonText, JsonMissing}

ResponseTexts == {Text, Null, Missing}

\* the object a well-formed response carries
WellFormedPayload ==
    [ signal |-> "bullish", confidence |-> JsonNumber(75), reasoning |-> Text,
      discussion_summary |-> Text, consensus_view |-> Text, dissenting_opinions |-> Text ]

PayloadKeys == {"signal", "confidence"} \cup TextKeys

Defects(p) == Cardinality({k \in PayloadKeys : p[k] # WellFormedPayload[k]})

\* the objects a response may carry: at most MaxDefects fields are not as required
Payloads ==
    { p \in [ signal : ResponseSignals, confidence : ResponseConfidences,
              reasoning : ResponseTexts, discussion_summary : ResponseTexts,
              consensus_view : ResponseTexts, dissenting_opinions : ResponseTexts ] :
        Defects(p) <= MaxDefects }

NoPayload ==
    [ signal |-> Missing, confidence |-> JsonMissing, reasoning |-> Missing,
      discussion_summary |-> Missing, consensus_view |-> Missing,
      dissenting_opinions |-> Missing ]

HasPayload(format) == format \in {"fenced", "bare", "single", "keys"}

Responses ==
    {[format |-> f, json |-> p] : f \in {g \in ResponseFormats : HasPayload(g)}, p \in Payloads}
    \cup {[format |-> f, json |-> NoPayload] : f \in {g \in ResponseFormats : ~HasPayload(g)}}

NoResponse == [format |-> "none", json |-> NoPayload]

\* setup: importing and building the model; rate_limited: how many attempts in a row
\* answer with a rate-limit error; last: the outcome of the attempt after those
FinalEnvs ==
    {[setup |-> s, rate_limited |-> 0, last |-> "error", response |-> NoResponse] :
        s \in {"import_error", "provider_error"}}
    \cup {[setup |-> "ok", rate_limited |-> k, last |-> "error", response |-> NoResponse] :
        k \in 0..MaxRateLimited}
    \cup {[setup |-> "ok", rate_limited |-> k, last |-> "ok", response |-> r] :
        k \in 0..MaxRateLimited, r \in Responses}

-----------------------------------------------------------------------------
(* generate_final_analysis *)

default_analysis ==
    [ signal |-> "neutral",
      confidence |-> Frac(50, 1),
      reasoning |-> "Balanced mix of positive and negative factors",
      discussion_summary |-> "The discussion covered various aspects",
      consensus_view |-> "No strong consensus emerged",
      dissenting_opinions |-> "Various perspectives were presented" ]

\* a verdict as the JSON object it is
AsJson(v) == [v EXCEPT !.confidence = [kind |-> "number", val |-> v.confidence]]

\* the delay before the retry that follows attempt retry_count
Delay(retry_count) == base_delay * Pow2(retry_count)

\* every one of the max_retries attempts is followed by a wait and another attempt
RetryAfterEvery(retry_count) == retry_count < max_retries

\* whether a rate-limited attempt is followed by another one
MayRetry(retry_count) == retry_count < max_retries - 1

\* every error is taken for a rate-limit error
AnyError(outcome) == outcome # "ok"

\* "429" in str(e) or "RESOURCE_EXHAUSTED" in str(e)
IsRateLimitError(outcome) == outcome = "rate_limit"

\* for retry_count in range(max_retries): invoke, break / sleep and continue / give up
RECURSIVE RetryLoop(_, _, _)
RetryLoop(env, retry_count, waits) ==
    IF retry_count >= max_retries
    THEN [calls |-> retry_count, waits |-> waits, got |-> "nothing"]
    ELSE LET outcome == IF retry_count < env.rate_limited THEN "rate_limit" ELSE env.last IN
         IF outcome = "ok"
         THEN [calls |-> retry_count + 1, waits |-> waits, got |-> "response"]
         ELSE IF IsRateLimitError(outcome) /\ MayRetry(retry_count)
         THEN RetryLoop(env, retry_count + 1, Append(waits, Delay(retry_count)))
         ELSE [calls |-> retry_count + 1, waits |-> waits, got |-> "error"]

\* APPROACH 1: the first fenced code block that json.loads accepts
CodeBlockJson(r) ==
    CASE r.format = "fenced" -> [found |-> TRUE, dict |-> TRUE, json |-> r.json]
      [] r.format = "fenced_list" -> [found |-> TRUE, dict |-> FALSE, json |-> NoPayload]
      [] OTHER -> [found |-> FALSE, dict |-> FALSE, json |-> NoPayload]

\* APPROACH 2: the first brace-delimited substring that json.loads accepts once its
\* single quotes are replaced by double quotes
BraceJson(r) ==
    IF r.format \in {"fenced", "bare", "single"}
    THEN [found |-> TRUE, dict |-> TRUE, json |-> r.json]
    ELSE [found |-> FALSE, dict |-> FALSE, json |-> NoPayload]

\* APPROACH 3: "key": "value" or "key": number, key by key; null matches neither
extracted_values(r) ==
    IF r.format \in {"fenced", "bare", "keys"}
    THEN [ signal |-> r.json.signal,
           confidence |-> r.json.confidence,
           reasoning |-> IF r.json.reasoning = Null THEN Missing ELSE r.json.reasoning,
           discussion_summary |-> IF r.json.discussion_summary = Null THEN Missing
                                  ELSE r.json.discussion_summary,
           consensus_view |-> IF r.json.consensus_view = Null THEN Missing
                              ELSE r.json.consensus_view,
           dissenting_opinions |-> IF r.json.dissenting_opinions = Null THEN Missing
                                   ELSE r.json.dissenting_opinions ]
    ELSE NoPayload

\* a repair that takes the field from the signal-vote fallback
RepairFromFallback(ts, key) == generate_fallback_analysis(ts)[key]

\* the value that stands in for a field the parsed verdict lacks or has wrong
RepairValue(ts, key) == default_analysis[key]

\* the signal-vote fallback in the place of the default analysis
UnparsableFallback(ts) == generate_fallback_analysis(ts)

\* the analysis used when nothing at all can be extracted from the response
UnparsableAnalysis(ts) == default_analysis

KeyExtraction(ts, r) ==
    IF extracted_values(r) # NoPayload
    THEN [approach |-> 3, found |-> TRUE, dict |-> TRUE, json |-> extracted_values(r)]
    ELSE [approach |-> 3, found |-> FALSE, dict |-> TRUE, json |-> AsJson(UnparsableAnalysis(ts))]

\* the approaches in another order: the brace-delimited substring before the
\* fenced code block
braces_before_code_block(ts, r) ==
    IF BraceJson(r).found THEN [approach |-> 2] @@ BraceJson(r)
    ELSE IF CodeBlockJson(r).found THEN [approach |-> 1] @@ CodeBlockJson(r)
    ELSE KeyExtraction(ts, r)

\* the three approaches in order: the first that yields an object decides
ParseResponse(ts, r) ==
    IF CodeBlockJson(r).found THEN [approach |-> 1] @@ CodeBlockJson(r)
    ELSE IF BraceJson(r).found THEN [approach |-> 2] @@ BraceJson(r)
    ELSE KeyExtraction(ts, r)

ValidSignal(ts, s) ==
    IF s = Missing \/ s \notin Signals THEN RepairValue(ts, "signal") ELSE s

\* float(analysis_json["confidence"]), or the repair value when that raises
ValidConfidence(ts, c) ==
    IF c.kind = "number" THEN c.val ELSE RepairValue(ts, "confidence")

ValidText(ts, aj, key) == IF aj[key] = Missing THEN RepairValue(ts, key) ELSE aj[key]

\* "Validate the result": backfill missing keys, check the signal, coerce the confidence
ValidateAnalysis(ts, aj) ==
    [ signal |-> ValidSignal(ts, aj.signal),
      confidence |-> ValidConfidence(ts, aj.confidence),
      reasoning |-> ValidText(ts, aj, "reasoning"),
      discussion_summary |-> ValidText(ts, aj, "discussion_summary"),
      consensus_view |-> ValidText(ts, aj, "consensus_view"),
      dissenting_opinions |-> ValidText(ts, aj, "dissenting_opinions") ]

\* what the body of generate_final_analysis sees of the LLM: whether the setup
\* succeeded, how the retry loop ended, and the response it ended with
OutcomeOf(env) ==
    LET got == IF env.setup = "ok" THEN RetryLoop(env, 0, <<>>).got ELSE "nothing" IN
    [ setup |-> env.setup, got |-> got,
      response |-> IF got = "response" THEN env.response ELSE NoResponse ]

FinalOutcomes == {OutcomeOf(env) : env \in FinalEnvs}

\* the verdict returned, the parsing approach that decided it (0: the parsing was
\* not run), and where the verdict comes from
AnalysisOf(ts, o) ==
    LET parsed == ParseResponse(ts, o.response) IN
    CASE o.setup = "import_error" ->
            [verdict |-> default_analysis, source |-> "default", approach |-> 0]
      [] o.setup = "provider_error" ->
            [verdict |-> generate_fallback_analysis(ts), source |-> "fallback", approach |-> 0]
      [] o.setup = "ok" /\ o.got # "response" ->
            [verdict |-> generate_fallback_analysis(ts), source |-> "fallback", approach |-> 0]
      [] o.setup = "ok" /\ o.got = "response" /\ ~parsed.dict ->
            [ verdict |-> generate_fallback_analysis(ts), source |-> "fallback",
              approach |-> parsed.approach ]
      [] OTHER ->
            [ verdict |-> ValidateAnalysis(ts, parsed.json),
              source |-> IF parsed.found THEN "parsed" ELSE "default",
              approach |-> parsed.approach ]

\* one call: the verdict, and the LLM invocations and sleeps it took
generate_final_analysis(ts, env) ==
    LET loop == IF env.setup = "ok" THEN RetryLoop(env, 0, <<>>)
                ELSE [calls |-> 0, waits |-> <<>>, got |-> "nothing"]
    IN  AnalysisOf(ts, OutcomeOf(env)) @@ [calls |-> loop.calls, waits |-> loop.waits]

-----------------------------------------------------------------------------
(* Personas *)

\* setup_analysts.persona_definitions: agent identifier -> persona name
persona_definitions ==
    ("warren_buffett_agent" :> "Warren Buffett") @@
    ("charlie_munger_agent" :> "Charlie Munger") @@
    ("ben_graham_agent" :> "Ben Graham") @@
    ("cathie_wood_agent" :> "Cathie Wood") @@
    ("bill_ackman_agent" :> "Bill Ackman") @@
    ("nancy_pelosi_agent" :> "Nancy Pelosi") @@
    ("technical_analyst_agent" :> "Technical Analyst") @@
    ("fundamentals_agent" :> "Fundamental Analyst") @@
    ("sentiment_agent" :> "Sentiment Analyst") @@
    ("valuation_agent" :> "Valuation Analyst") @@
    ("wsb_agent" :> "WSB")

\* the personas whose agent identifier is a key of the map, in the map's order
setup_analysts(ts) ==
    LET known == SelectSeq(ts, LAMBDA e : e.agent \in DOMAIN persona_definitions)
    IN  [i \in 1..Len(known) |-> persona_definitions[known[i].agent]]

-----------------------------------------------------------------------------
(* select_primary_debaters *)

\* the analysts of one category with their confidences, in iteration order
Category(ts, as, signal) ==
    LET present == SelectSeq(as, LAMBDA a : a \in Keys(ts))
        named == [i \in 1..Len(present) |->
                    [name |-> present[i], signal |-> Lookup(ts, present[i]).signal,
                     confidence |-> Lookup(ts, present[i]).confidence]]
    IN  SelectSeq(named, LAMBDA e :
            IF signal = "neutral" THEN e.signal \notin {"bullish", "bearish"}
            ELSE e.signal = signal)

\* list.sort(key=confidence, reverse=True): stable, highest confidence first
RECURSIVE SortByConfidence(_)
SortByConfidence(s) ==
    IF Len(s) <= 1 THEN s
    ELSE LET rest == SortByConfidence(SubSeq(s, 1, Len(s) - 1))
             last == s[Len(s)]
             before == SelectSeq(rest, LAMBDA e : e.confidence >= last.confidence)
             after == SelectSeq(rest, LAMBDA e : e.confidence < last.confidence)
         IN  before \o <<last>> \o after

Names(s) == [i \in DOMAIN s |-> s[i].name]

\* append the elements of more that are not yet in acc
RECURSIVE AppendNew(_, _)
AppendNew(acc, more) ==
    IF more = <<>> THEN acc
    ELSE AppendNew(IF Head(more) \in Range(acc) THEN acc ELSE Append(acc, Head(more)),
                   Tail(more))

FirstN(s, n) == SubSeq(s, 1, Min(n, Len(s)))

\* the top 2 of each category, bullish and bearish by confidence, neutral as iterated
TopOfCategories(ts, as) ==
    AppendNew(AppendNew(AppendNew(<<>>,
        FirstN(Names(SortByConfidence(Category(ts, as, "bullish"))), 2)),
        FirstN(Names(SortByConfidence(Category(ts, as, "bearish"))), 2)),
        FirstN(Names(Category(ts, as, "neutral")), 2))

\* the fill without the condition on the number of analysts
fill_whenever_short(ts, as) ==
    LET top == TopOfCategories(ts, as) IN
    IF Len(top) < 4
    THEN top \o FirstN(SelectSeq(as, LAMBDA a : a \notin Range(top)), 4 - Len(top))
    ELSE top

select_primary_debaters(ts, as) ==
    LET top == TopOfCategories(ts, as) IN
    IF Len(top) < 4 /\ Len(as) >= 4
    THEN top \o FirstN(SelectSeq(as, LAMBDA a : a \notin Range(top)), 4 - Len(top))
    ELSE top

-----------------------------------------------------------------------------
(* Utterances *)

Utterance(phase, speaker, src) == [phase |-> phase, speaker |-> speaker, src |-> src]

Moderator == "Moderator"

\* generate_moderator_intro
generate_moderator_intro == Utterance("intro", Moderator, "fixed")

\* "\n\n" + "\n\n".join([]) appends an empty paragraph
Blank == Utterance("blank", "", "fixed")

\* the turns in the opposite order (a joining that does not keep the order)
JoinedReversed(turns) ==
    IF turns = <<>> THEN <<Blank>> ELSE [i \in 1..Len(turns) |-> turns[Len(turns) + 1 - i]]

\* "\n\n".join(turns), appended after a separator
Joined(turns) == IF turns = <<>> THEN <<Blank>> ELSE turns

\* the new paragraphs replace the transcript's last paragraph (an assignment that
\* rebuilds the transcript instead of extending it)
OverwriteTranscript(transcript, paragraphs) ==
    SubSeq(transcript, 1, Len(transcript) - 1) \o paragraphs

\* full_transcript += "\n\n" + paragraphs
AppendToTranscript(transcript, paragraphs) == transcript \o paragraphs

RECURSIVE Flatten(_)
Flatten(ss) == IF ss = <<>> THEN <<>> ELSE Head(ss) \o Flatten(Tail(ss))

\* sequences of k distinct indices of 1..n: random.sample
Samples(n, k) == {q \in [1..k -> 1..n] : \A i, j \in 1..k : i # j => q[i] # q[j]}

Count(f, v) == Cardinality({i \in DOMAIN f : f[i] = v})

-----------------------------------------------------------------------------
(* generate_questions *)

\* a pair whose failed question is not followed by an answer
question_without_answer(q, r, outcome) ==
    IF outcome = "question_raises"
    THEN <<Utterance("question", q, "default")>>
    ELSE <<Utterance("question", q, "llm"),
           Utterance("answer", r, IF outcome = "ok" THEN "llm" ELSE "default")>>

\* the two turns of one questioner/responder pair
QuestionPair(q, r, outcome) ==
    CASE outcome = "ok" ->
            <<Utterance("question", q, "llm"), Utterance("answer", r, "llm")>>
      [] outcome = "answer_raises" ->
            <<Utterance("question", q, "llm"), Utterance("answer", r, "default")>>
      [] outcome = "question_raises" ->
            <<Utterance("question", q, "default"), Utterance("answer", r, "generic")>>

PairOutcomes == {"ok", "answer_raises", "question_raises"}

\* every analyst handed over asks a question
everyone_asks(as) == Len(as)

\* the questioners: min(3, len(analysts)) of the analysts handed over
NumQuestioners(as) == Min(3, Len(as))

\* the results generate_questions may return with at most budget calls raising
generate_questions(as, budget) ==
    IF Len(as) < 2 THEN {<<>>}
    ELSE { Flatten([i \in 1..NumQuestioners(as) |->
                       QuestionPair(as[c.q[i]], as[c.r[i]], c.o[i])]) :
             c \in { d \in [q : Samples(Len(as), NumQuestioners(as)),
                            r : [1..NumQuestioners(as) -> 1..Len(as)],
                            o : [1..NumQuestioners(as) -> PairOutcomes]] :
                       /\ \A i \in 1..NumQuestioners(as) : d.r[i] # d.q[i]
                       /\ NumQuestioners(as) - Count(d.o, "ok") <= budget } }

Raised(turns) == Cardinality({i \in DOMAIN turns : turns[i].src \in {"default", "generic"}
                                                     /\ turns[i].phase # "answer"})
                 + Cardinality({i \in DOMAIN turns : turns[i].src = "default"
                                                     /\ turns[i].phase = "answer"})


-----------------------------------------------------------------------------
(* generate_debate_exchanges, generate_synthesis, generate_moderator_conclusion *)

CallSources == {"llm", "default"}

\* the argument and the counter-argument on one topic
TopicExchange(as, bull, bear) ==
    IF Len(as) < 2 THEN <<>>
    ELSE <<Utterance("argument", as[1], bull), Utterance("counter", as[2], bear)>>

\* the exchanges on num_topics >= 1 topics, with at most budget calls raising
generate_debate_exchanges(as, num_topics, budget) ==
    { <<Utterance("debate_intro", Moderator, "fixed")>>
        \o Flatten([t \in 1..Min(2, num_topics) |-> TopicExchange(as, o[t][1], o[t][2])]) :
      o \in { d \in [1..Min(2, num_topics) -> CallSources \X CallSources] :
                /\ Cardinality({t \in DOMAIN d : d[t][1] = "default"})
                     + Cardinality({t \in DOMAIN d : d[t][2] = "default"}) <= budget
                /\ Len(as) < 2 => \A t \in DOMAIN d : d[t] = <<"llm", "llm">> } }

\* a synthesis in which every analyst handed over has a final position
synthesis_of_everyone(as, budget) ==
    { <<Utterance("synthesis_intro", Moderator, "fixed")>>
        \o [i \in 1..Len(as) |-> Utterance("synthesis", as[i], o[i])] :
      o \in { d \in [1..Len(as) -> CallSources] : Count(d, "default") <= budget } }

\* the moderator's transition and the final positions of the first 3 analysts
generate_synthesis(as, budget) ==
    { <<Utterance("synthesis_intro", Moderator, "fixed")>>
        \o [i \in 1..Min(3, Len(as)) |-> Utterance("synthesis", as[i], o[i])] :
      o \in { d \in [1..Min(3, Len(as)) -> CallSources] : Count(d, "default") <= budget } }

\* the LLM's conclusion, or the default conclusion when the call raises
generate_moderator_conclusion(budget) ==
    {Utterance("conclusion", Moderator, "llm")}
    \cup (IF budget > 0 THEN {Utterance("conclusion", Moderator, "default")} ELSE {})

-----------------------------------------------------------------------------
(* RoundTableOutput *)

\* the fields of a verdict satisfy the types of RoundTableOutput
SchemaValid(v) ==
    /\ v.signal \in Signals
    /\ \A k \in TextKeys : v[k] \notin {Null, Missing}

RoundTableOutput(v, transcript) == v @@ [conversation_transcript |-> transcript]

-----------------------------------------------------------------------------
(* Inputs *)

\* keys a ticker's signal map may have, in the order the workflow inserts them:
\* agent identifiers, and persona names used as keys
AgentKeys == <<"wsb_agent", "WSB", "ben_graham_agent", "Ben Graham">>

RoundTableVotes ==
    { [signal |-> "bullish", confidence |-> 80],
      [signal |-> "bearish", confidence |-> 60] }

\* the signal map with the keys order[i], i in chosen, in that order, and the votes v
RECURSIVE SignalMapFrom(_, _, _, _)
SignalMapFrom(order, chosen, v, i) ==
    IF i > Len(order) THEN <<>>
    ELSE (IF i \in chosen
          THEN <<[agent |-> order[i], signal |-> v[i].signal,
                  confidence |-> v[i].confidence, reasoning |-> v[i].reasoning]>>
          ELSE <<>>) \o SignalMapFrom(order, chosen, v, i + 1)

SignalMaps(order, votes, max) ==
    UNION { {SignalMapFrom(order, chosen, v, 1) : v \in [chosen -> votes]} :
              chosen \in {c \in SUBSET DOMAIN order : c # {} /\ Cardinality(c) <= max} }

WithReasoning(votes, kinds) ==
    {[signal |-> v.signal, confidence |-> v.confidence, reasoning |-> k] :
        v \in votes, k \in kinds}

NoVerdict == [signal |-> "none"]

NoRun == [source |-> "none"]

NoEnv == [setup |-> "none"]

NoSelection == [given |-> FALSE, keys |-> <<>>]

NoWorkflow == [nodes |-> {}, edges |-> {}]

NothingExecuted == [done |-> <<>>, due |-> {}]

NoInput == [agent |-> "none"]

NoResult == [agent |-> "none"]

\* "analyst_signals": {} of a workflow state before any node has run
NoSignals == [k \in {} |-> <<>>]

NoCall == [fn |-> "none"]

NoReturn == [fn |-> "none"]

\* no function of the tools is called on its own
\* sockets of the web server
MaxClients == 2
Clients == 1..MaxClients

\* calls of broadcast_log in one request
MaxBroadcasts == 2

NoHandlers == [c \in Clients |-> "idle"]
NoBroadcast == [pc |-> "idle", copy |-> <<>>, i |-> 0, calls |-> 0, raised |-> FALSE]

\* the web server is not part of the run
IdleWeb ==
    /\ websocket_clients = <<>>
    /\ disconnected = {}
    /\ handlers = NoHandlers
    /\ broadcast = NoBroadcast

IdleTools ==
    /\ tool_input = NoCall
    /\ tool_result = NoReturn
    /\ IdleWeb

\* the workflow graph and the analyst wrappers are not part of the run
IdlePipeline ==
    /\ analyst_signals = NoSignals
    /\ selected_analysts = NoSelection
    /\ workflow = NoWorkflow
    /\ executed = NothingExecuted
    /\ agent_input = NoInput
    /\ agent_result = NoResult

-----------------------------------------------------------------------------
(* simulate_round_table *)

Init ==
    /\ pc = "start"
    /\ ticker_signals \in
          SignalMaps(AgentKeys, WithReasoning(RoundTableVotes, {"long"}), MaxSignals)
    /\ analysts = <<>>
    /\ idx = 0
    /\ full_transcript = <<>>
    /\ conversation_turns = <<>>
    /\ questions = <<>>
    /\ primary_debaters = <<>>
    /\ final_analysis = NoVerdict
    /\ output = NoVerdict
    /\ faults = 0
    /\ fa_env = NoEnv
    /\ fa_run = NoRun
    /\ IdlePipeline
    /\ IdleTools

\* setup_analysts and the moderator's introduction
Setup ==
    /\ pc = "start"
    /\ analysts' = setup_analysts(ticker_signals)
    /\ full_transcript' = <<generate_moderator_intro>>
    /\ idx' = 1
    /\ pc' = "opening"
    /\ UNCHANGED <<ticker_signals, conversation_turns, questions, primary_debaters,
                   final_analysis, output, faults, fa_env, pipeline_vars, tool_vars, fa_run>>

\* Phase 1, one analyst: the opening statement is appended, or the analyst is
\* skipped (its name is no key of the map, or generating the position raised)
OpeningPosition ==
    /\ pc = "opening"
    /\ idx <= Len(analysts)
    /\ \/ /\ analysts[idx] \in Keys(ticker_signals)
          /\ full_transcript' =
                AppendToTranscript(full_transcript,
                                   <<Utterance("opening", analysts[idx], "llm")>>)
          /\ faults' = faults
       \/ /\ analysts[idx] \in Keys(ticker_signals)
          /\ faults < MaxFaults
          /\ faults' = faults + 1
          /\ full_transcript' = full_transcript
       \/ /\ analysts[idx] \notin Keys(ticker_signals)
          /\ UNCHANGED <<full_transcript, faults>>
    /\ idx' = idx + 1
    /\ UNCHANGED <<pc, ticker_signals, analysts, conversation_turns, questions,
                   primary_debaters, final_analysis, output, fa_env, pipeline_vars, tool_vars, fa_run>>

SelectDebaters ==
    /\ pc = "opening"
    /\ idx > Len(analysts)
    /\ primary_debaters' = select_primary_debaters(ticker_signals, analysts)
    /\ conversation_turns' = <<>>
    /\ pc' = "questioning"
    /\ UNCHANGED <<ticker_signals, analysts, idx, full_transcript, questions,
                   final_analysis, output, faults, fa_env, pipeline_vars, tool_vars, fa_run>>

\* First round: generate_questions on the primary debaters; if it raises,
\* questions = [] and nothing is added to the turns
Questioning ==
    /\ pc = "questioning"
    /\ \/ \E qs \in generate_questions(primary_debaters, MaxFaults - faults) :
            /\ questions' = qs
            /\ conversation_turns' = conversation_turns \o qs
            /\ faults' = faults + Raised(qs)
       \/ /\ Len(primary_debaters) >= 2
          /\ faults < MaxFaults
          /\ questions' = <<>>
          /\ faults' = faults + 1
          /\ UNCHANGED conversation_turns
    /\ pc' = "debate"
    /\ UNCHANGED <<ticker_signals, analysts, idx, full_transcript, primary_debaters,
                   final_analysis, output, fa_env, pipeline_vars, tool_vars, fa_run>>

\* Second round: generate_debate_exchanges; an empty topic list or a raising
\* prompt aborts the round and nothing is added to the turns
Debate ==
    /\ pc = "debate"
    /\ \/ \E num_topics \in 1..3 :
          \E ex \in generate_debate_exchanges(primary_debaters, num_topics, MaxFaults - faults) :
            /\ conversation_turns' = conversation_turns \o ex
            /\ faults' = faults + Raised(ex)
       \/ UNCHANGED <<conversation_turns, faults>>
       \/ /\ faults < MaxFaults
          /\ faults' = faults + 1
          /\ UNCHANGED conversation_turns
    /\ pc' = "synthesis"
    /\ UNCHANGED <<ticker_signals, analysts, idx, full_transcript, questions,
                   primary_debaters, final_analysis, output, fa_env, pipeline_vars, tool_vars, fa_run>>

\* Final round: generate_synthesis on the primary debaters
Synthesis ==
    /\ pc = "synthesis"
    /\ \/ \E sy \in generate_synthesis(primary_debaters, MaxFaults - faults) :
            /\ conversation_turns' = conversation_turns \o sy
            /\ faults' = faults + Raised(sy)
       \/ /\ Len(primary_debaters) >= 1
          /\ faults < MaxFaults
          /\ faults' = faults + 1
          /\ UNCHANGED conversation_turns
    /\ pc' = "join"
    /\ UNCHANGED <<ticker_signals, analysts, idx, full_transcript, questions,
                   primary_debaters, final_analysis, output, fa_env, pipeline_vars, tool_vars, fa_run>>

\* full_transcript += "\n\n" + "\n\n".join(conversation_turns)
JoinTurns ==
    /\ pc = "join"
    /\ full_transcript' = AppendToTranscript(full_transcript, Joined(conversation_turns))
    /\ pc' = "conclusion"
    /\ UNCHANGED <<ticker_signals, analysts, idx, conversation_turns, questions,
                   primary_debaters, final_analysis, output, faults, fa_env, pipeline_vars, tool_vars, fa_run>>

\* the moderator's conclusion, or the fixed closing line when generating it raises
Conclusion ==
    /\ pc = "conclusion"
    /\ \/ \E c \in generate_moderator_conclusion(MaxFaults - faults) :
            /\ full_transcript' = AppendToTranscript(full_transcript, <<c>>)
            /\ faults' = faults + Raised(<<c>>)
       \/ /\ faults < MaxFaults
          /\ full_transcript' =
                AppendToTranscript(full_transcript,
                                   <<Utterance("conclusion", Moderator, "generic")>>)
          /\ faults' = faults + 1
    /\ pc' = "final"
    /\ UNCHANGED <<ticker_signals, analysts, idx, conversation_turns, questions,
                   primary_debaters, final_analysis, output, fa_env, pipeline_vars, tool_vars, fa_run>>

\* generate_final_analysis, whatever the LLM does
FinalVerdict ==
    /\ pc = "final"
    /\ \E o \in FinalOutcomes :
          final_analysis' = AnalysisOf(ticker_signals, o).verdict
    /\ pc' = "construct"
    /\ UNCHANGED <<ticker_signals, analysts, idx, full_transcript, conversation_turns,
                   questions, primary_debaters, output, faults, fa_env, pipeline_vars, tool_vars, fa_run>>

\* return RoundTableOutput(...): the object is built and returned
ReturnOutput ==
    /\ pc = "construct"
    /\ SchemaValid(final_analysis)
    /\ output' = RoundTableOutput(final_analysis, full_transcript)
    /\ pc' = "done"
    /\ UNCHANGED <<ticker_signals, analysts, idx, full_transcript, conversation_turns,
                   questions, primary_debaters, final_analysis, faults, fa_env, pipeline_vars, tool_vars, fa_run>>

\* return RoundTableOutput(...): the validation error leaves simulate_round_table
OutputRaises ==
    /\ pc = "construct"
    /\ ~SchemaValid(final_analysis)
    /\ pc' = "raised"
    /\ UNCHANGED <<ticker_signals, analysts, idx, full_transcript, conversation_turns,
                   questions, primary_debaters, final_analysis, output, faults, fa_env, pipeline_vars, tool_vars,
                   fa_run>>

Next ==
    \/ Setup
    \/ OpeningPosition
    \/ SelectDebaters
    \/ Questioning
    \/ Debate
    \/ Synthesis
    \/ JoinTurns
    \/ Conclusion
    \/ FinalVerdict
    \/ ReturnOutput
    \/ OutputRaises

Spec == Init /\ [][Next]_vars


-----------------------------------------------------------------------------
(* generate_final_analysis on its own: one call for every signal map and every *)
(* behaviour of the LLM                                                        *)

WorkflowAgents == <<"ben_graham_agent", "nancy_pelosi_agent", "wsb_agent", "warren_buffett_agent">>

FinalVotes ==
    { [signal |-> "bullish", confidence |-> 80],
      [signal |-> "bearish", confidence |-> 90],
      [signal |-> "neutral", confidence |-> 0] }

IdleRoundTable ==
    /\ analysts = <<>>
    /\ idx = 0
    /\ full_transcript = <<>>
    /\ conversation_turns = <<>>
    /\ questions = <<>>
    /\ primary_debaters = <<>>
    /\ output = NoVerdict
    /\ faults = 0

InitFinal ==
    /\ pc = "call"
    /\ ticker_signals \in
          SignalMaps(SubSeq(WorkflowAgents, 1, 3), WithReasoning(FinalVotes, {"long"}),
                     MaxFinalSignals)
    /\ fa_env \in FinalEnvs
    /\ fa_run = NoRun
    /\ final_analysis = NoVerdict
    /\ IdleRoundTable
    /\ IdlePipeline
    /\ IdleTools

FinalAnalysisCall ==
    /\ pc = "call"
    /\ fa_run' = generate_final_analysis(ticker_signals, fa_env)
    /\ final_analysis' = fa_run'.verdict
    /\ pc' = "returned"
    /\ UNCHANGED <<ticker_signals, analysts, idx, full_transcript, conversation_turns,
                   questions, primary_debaters, output, faults, fa_env, pipeline_vars, tool_vars>>

NextFinal == FinalAnalysisCall

SpecFinal == InitFinal /\ [][NextFinal]_vars

-----------------------------------------------------------------------------
(* generate_fallback_analysis on its own: one call for every signal map *)

Confidences == {60, 80, 90}

\* every signal with every confidence and a reasoning that is collected, and every
\* signal with a reasoning too short to be collected
FallbackVotes ==
    WithReasoning({[signal |-> s, confidence |-> c] : s \in Signals, c \in Confidences},
                  {"long"})
    \cup WithReasoning({[signal |-> s, confidence |-> 60] : s \in Signals}, {"short"})

InitFallback ==
    /\ pc = "call"
    /\ ticker_signals \in SignalMaps(WorkflowAgents, FallbackVotes, MaxVotes)
    /\ fa_env = NoEnv
    /\ fa_run = NoRun
    /\ final_analysis = NoVerdict
    /\ IdleRoundTable
    /\ IdlePipeline
    /\ IdleTools

FallbackCall ==
    /\ pc = "call"
    /\ final_analysis' = generate_fallback_analysis(ticker_signals)
    /\ pc' = "returned"
    /\ UNCHANGED <<ticker_signals, analysts, idx, full_transcript, conversation_turns,
                   questions, primary_debaters, output, faults, fa_env, pipeline_vars, tool_vars, fa_run>>

NextFallback == FallbackCall

SpecFallback == InitFallback /\ [][NextFallback]_vars


-----------------------------------------------------------------------------
(* select_primary_debaters on its own: one call for every signal map *)

\* agent identifiers as the analyst wrappers write them, and persona names as keys
DebaterKeys ==
    <<"warren_buffett_agent", "ben_graham_agent", "nancy_pelosi_agent", "wsb_agent",
      "Ben Graham", "WSB">>

DebaterVotes ==
    { [signal |-> "bullish", confidence |-> 50],
      [signal |-> "bullish", confidence |-> 70],
      [signal |-> "bullish", confidence |-> 90],
      [signal |-> "bearish", confidence |-> 60],
      [signal |-> "neutral", confidence |-> 40] }

InitDebaters ==
    /\ pc = "call"
    /\ ticker_signals \in
          SignalMaps(DebaterKeys, WithReasoning(DebaterVotes, {"long"}), MaxDebaterKeys)
    /\ fa_env = NoEnv
    /\ fa_run = NoRun
    /\ final_analysis = NoVerdict
    /\ IdleRoundTable
    /\ IdlePipeline
    /\ IdleTools

\* analysts = setup_analysts(...); primary_debaters = select_primary_debaters(...)
DebatersCall ==
    /\ pc = "call"
    /\ analysts' = setup_analysts(ticker_signals)
    /\ primary_debaters' = select_primary_debaters(ticker_signals, analysts')
    /\ pc' = "returned"
    /\ UNCHANGED <<ticker_signals, idx, full_transcript, conversation_turns, questions,
                   final_analysis, output, faults, fa_env, fa_run, pipeline_vars, tool_vars>>

NextDebaters == DebatersCall

SpecDebaters == InitDebaters /\ [][NextDebaters]_vars

-----------------------------------------------------------------------------
(* The workflow graph: create_workflow and its single execution by run_hedge_fund *)

\* persona identifiers in a selection
MaxSelected == 3

round_table_vars ==
    <<ticker_signals, analysts, idx, full_transcript, conversation_turns, questions,
      primary_debaters, final_analysis, output, faults, fa_env, fa_run>>

\* the registry of analyst nodes: persona identifier -> node name
ANALYST_ORDER == <<"ben_graham", "nancy_pelosi", "wsb">>

get_analyst_nodes ==
    [k \in Range(ANALYST_ORDER) |->
        CASE k = "ben_graham" -> "ben_graham_agent"
          [] k = "nancy_pelosi" -> "nancy_pelosi_agent"
          [] k = "wsb" -> "wsb_agent"]

\* identifiers a caller may pass: those of the registry and one that is not in it
SelectableKeys == Range(ANALYST_ORDER) \cup {"unknown_analyst"}

\* selected_analysts after `if selected_analysts is None`
SelectedKeys(sel) == IF sel.given THEN sel.keys ELSE ANALYST_ORDER

\* the analyst nodes of a graph that ignores the selection
EveryNode(keys) == { get_analyst_nodes[k] : k \in DOMAIN get_analyst_nodes }

\* the analyst nodes the loops over selected_analysts add
SelectedNodes(keys) ==
    { get_analyst_nodes[keys[i]] : i \in {j \in DOMAIN keys : keys[j] \in DOMAIN get_analyst_nodes} }

\* add_node is called a second time with the same node name
AddsNodeTwice(keys) ==
    \E i, j \in DOMAIN keys : i < j /\ keys[i] = keys[j] /\ keys[i] \in DOMAIN get_analyst_nodes

\* a graph in which risk aggregation starts beside the analysts instead of after them
risk_beside_analysts(sel) ==
    LET nodes == SelectedNodes(SelectedKeys(sel)) IN
    [raised |-> AddsNodeTwice(SelectedKeys(sel)),
     nodes |-> {"start_node"} \cup nodes
                  \cup {"risk_management_agent", "portfolio_management_agent"},
     edges |-> {<<"start_node", n>> : n \in nodes \cup {"risk_management_agent"}}
                  \cup {<<n, "portfolio_management_agent">> :
                           n \in nodes \cup {"risk_management_agent"}}
                  \cup {<<"portfolio_management_agent", "END">>}]

create_workflow(sel) ==
    LET keys == SelectedKeys(sel)
        nodes == SelectedNodes(keys)
    IN  IF AddsNodeTwice(keys)
        THEN [raised |-> TRUE, nodes |-> {}, edges |-> {}]
        ELSE [raised |-> FALSE,
              nodes |-> {"start_node"} \cup nodes
                           \cup {"risk_management_agent", "portfolio_management_agent"},
              edges |-> {<<"start_node", n>> : n \in nodes}
                           \cup {<<n, "risk_management_agent">> : n \in nodes}
                           \cup {<<"risk_management_agent", "portfolio_management_agent">>,
                                 <<"portfolio_management_agent", "END">>}]

Successors(g, n) == {m \in g.nodes : <<n, m>> \in g.edges}
Predecessors(g, m) == {n \in g.nodes : <<n, m>> \in g.edges}

\* the nodes that become due once `done` have run and n was the last of them
DueAfter(g, done, n) ==
    {m \in Successors(g, n) : Predecessors(g, m) \subseteq Range(done)}

InitWorkflow ==
    /\ pc = "call"
    /\ selected_analysts \in
          {[given |-> FALSE, keys |-> <<>>]}
             \cup {[given |-> TRUE, keys |-> ks] :
                     ks \in UNION {[1..n -> SelectableKeys] : n \in 0..MaxSelected}}
    /\ workflow = NoWorkflow
    /\ executed = NothingExecuted
    /\ agent_input = NoInput
    /\ agent_result = NoResult
    /\ ticker_signals = <<>>
    /\ fa_env = NoEnv
    /\ fa_run = NoRun
    /\ final_analysis = NoVerdict
    /\ IdleRoundTable
    /\ analyst_signals = NoSignals
    /\ IdleTools

\* workflow = create_workflow(selected_analysts); an exception ends the process
CreateWorkflow ==
    /\ pc = "call"
    /\ LET g == create_workflow(selected_analysts) IN
          IF g.raised
          THEN /\ pc' = "exit"
               /\ UNCHANGED workflow
          ELSE /\ pc' = "built"
               /\ workflow' = [nodes |-> g.nodes, edges |-> g.edges]
    /\ UNCHANGED <<selected_analysts, executed, agent_input, agent_result, round_table_vars, analyst_signals, tool_vars>>

\* app = workflow.compile(): a graph whose start node has no outgoing edge is
\* rejected by the graph library's validation or compiled as it is
Compile ==
    /\ pc = "built"
    /\ \/ pc' = "compiled"
       \/ /\ Successors(workflow, "start_node") = {}
          /\ pc' = "exit"
    /\ UNCHANGED <<selected_analysts, workflow, executed, agent_input, agent_result,
                   round_table_vars, analyst_signals, tool_vars>>

\* app.invoke(...): execution starts at the entry point
Invoke ==
    /\ pc = "compiled"
    /\ executed' = [done |-> <<>>, due |-> {"start_node"}]
    /\ pc' = "running"
    /\ UNCHANGED <<selected_analysts, workflow, agent_input, agent_result, round_table_vars, analyst_signals, tool_vars>>

\* the tickers of a run
RunTickers == {"AAPL", "GME"}

\* the analyses a wrapper may have made: for each ticker the signal of the LLM, or
\* the default signal
WrapperAnalyses ==
    [RunTickers -> { [signal |-> "bullish", confidence |-> 80, reasoning |-> "llm text"],
                     [signal |-> "neutral", confidence |-> 0,
                      reasoning |-> "Error in analysis"] }]

\* show_agent_reasoning(output, agent_name): what it prints
show_agent_reasoning(analysis, agent_name) == <<[agent |-> agent_name, shown |-> analysis]>>

\* a wrapper whose store replaces analyst_signals by its own entry
stores_only_its_own(agent, analysis, signals, show_reasoning) ==
    [messages |-> <<[name |-> agent, content |-> analysis]>>,
     analyst_signals |-> (agent :> analysis),
     printed |-> IF show_reasoning THEN show_agent_reasoning(analysis, agent) ELSE <<>>]

\* a wrapper that stores its analysis only when it shows its reasoning
stores_when_shown(agent, analysis, signals, show_reasoning) ==
    [messages |-> <<[name |-> agent, content |-> analysis]>>,
     analyst_signals |-> IF show_reasoning THEN (agent :> analysis) @@ signals ELSE signals,
     printed |-> IF show_reasoning THEN show_agent_reasoning(analysis, agent) ELSE <<>>]

\* a wrapper that stores its entry as soon as the first ticker is analysed
stores_first_ticker(agent, analysis, signals, show_reasoning) ==
    [messages |-> <<[name |-> agent, content |-> analysis]>>,
     analyst_signals |-> (agent :> [t \in {"AAPL"} |-> analysis[t]]) @@ signals,
     printed |-> IF show_reasoning THEN show_agent_reasoning(analysis, agent) ELSE <<>>]

\* the end of a wrapper once the tickers are analysed: the message, the reasoning
\* shown on request, state["data"]["analyst_signals"][agent] = analysis
wrapper_return(agent, analysis, signals, show_reasoning) ==
    [messages |-> <<[name |-> agent, content |-> analysis]>>,
     analyst_signals |-> (agent :> analysis) @@ signals,
     printed |-> IF show_reasoning THEN show_agent_reasoning(analysis, agent) ELSE <<>>]

\* the nodes of the graph that are analyst wrappers
WrapperNodes == { get_analyst_nodes[k] : k \in DOMAIN get_analyst_nodes }

\* one node of the graph runs and returns; an analyst wrapper stores its analysis,
\* with metadata["show_reasoning"] set or not
RunNode ==
    /\ pc = "running"
    /\ \E n \in executed.due :
          LET done == Append(executed.done, n)
              due == (executed.due \ {n}) \cup DueAfter(workflow, done, n)
          IN  /\ executed' = [done |-> done, due |-> due]
              /\ pc' = IF due = {} THEN "returned" ELSE "running"
              /\ \/ /\ n \in WrapperNodes
                    /\ \E analysis \in WrapperAnalyses, show_reasoning \in BOOLEAN :
                          analyst_signals' =
                             wrapper_return(n, analysis, analyst_signals,
                                            show_reasoning).analyst_signals
                 \/ /\ n \notin WrapperNodes
                    /\ UNCHANGED analyst_signals
    /\ UNCHANGED <<selected_analysts, workflow, agent_input, agent_result, round_table_vars,
                   tool_vars>>

\* nancy_pelosi_agent raises on its provider data; run_hedge_fund exits
NodeRaises ==
    /\ pc = "running"
    /\ "nancy_pelosi_agent" \in executed.due
    /\ pc' = "exit"
    /\ UNCHANGED <<selected_analysts, workflow, executed, agent_input, agent_result,
                   round_table_vars, analyst_signals, tool_vars>>

NextWorkflow ==
    \/ CreateWorkflow
    \/ Compile
    \/ Invoke
    \/ RunNode
    \/ NodeRaises

SpecWorkflow == InitWorkflow /\ [][NextWorkflow]_vars

\* the execution is synchronous: it proceeds as long as a step is possible
SpecWorkflowLive == SpecWorkflow /\ WF_vars(NextWorkflow)

-----------------------------------------------------------------------------
(* The analyst wrappers and their evaluators (src/src/agents) *)

\* a field the provider left unset (Python's None); no amount in the model is this low
None == -1000000

\* a collection argument: Python's None, or a list
NoneList == [none |-> TRUE, items |-> <<>>]
List(s) == [none |-> FALSE, items |-> s]

\* `not x` for a collection argument
Falsy(c) == c.none \/ c.items = <<>>

\* what an evaluator returns: {"score": ..., "details": ...}, or an exception
Result(score, details) == [raised |-> FALSE, score |-> score, details |-> details]
Raises == [raised |-> TRUE, score |-> 0, details |-> ""]

\* "; ".join(details) if details, for a list of n detail lines
JoinedDetails(n) == IF n > 0 THEN "text" ELSE ""

\* n / d >= p / q, for d # 0 and q > 0
RatioAtLeast(n, d, p, q) == IF d > 0 THEN n * q >= p * d ELSE n * q <= p * d

\* n / d < p / q, for d # 0 and q > 0
RatioBelow(n, d, p, q) == ~RatioAtLeast(n, d, p, q)

(* ben_graham.py *)

analyze_earnings_stability(metrics, financial_line_items) ==
    IF Falsy(metrics) \/ Falsy(financial_line_items)
    THEN Result(0, "text")
    ELSE
      LET with_eps == SelectSeq(financial_line_items.items,
                                LAMBDA item : item.earnings_per_share # None)
          eps_vals == [i \in DOMAIN with_eps |-> with_eps[i].earnings_per_share]
      IN  IF Len(eps_vals) < 2
          THEN Result(0, "text")
          ELSE
            LET positive_eps_years == Len(SelectSeq(eps_vals, LAMBDA e : e > 0))
                total_eps_years == Len(eps_vals)
                consistency == IF positive_eps_years = total_eps_years THEN 3
                               ELSE IF 10 * positive_eps_years >= 8 * total_eps_years THEN 2
                               ELSE 0
                \* if eps_vals[-1] > eps_vals[0]
                growth == IF eps_vals[Len(eps_vals)] > eps_vals[1] THEN 1 ELSE 0
            IN  Result(consistency + growth,
                       IF growth = 1 THEN "EPS grew from earliest to latest period."
                       ELSE "EPS did not grow from earliest to latest period.")

analyze_financial_strength(metrics, financial_line_items) ==
    IF Falsy(financial_line_items)
    THEN Result(0, "text")
    ELSE
      LET latest_item == financial_line_items.items[1]
          current_assets == IF latest_item.current_assets # None
                            THEN latest_item.current_assets ELSE 0
          current_liabilities == IF latest_item.current_liabilities # None
                                 THEN latest_item.current_liabilities ELSE 0
          liquidity == IF current_assets # 0 /\ current_liabilities # 0
                       THEN IF RatioAtLeast(current_assets, current_liabilities, 2, 1) THEN 2
                            ELSE IF RatioAtLeast(current_assets, current_liabilities, 3, 2) THEN 1
                            ELSE 0
                       ELSE 0
          total_assets == latest_item.total_assets
          total_liabilities == latest_item.total_liabilities
          debt == IF total_assets > 0
                  THEN IF RatioBelow(total_liabilities, total_assets, 1, 2) THEN 2
                       ELSE IF RatioBelow(total_liabilities, total_assets, 4, 5) THEN 1
                       ELSE 0
                  ELSE 0
          with_div == SelectSeq(financial_line_items.items,
                         LAMBDA item : item.dividends_and_other_cash_distributions # None)
          div_periods == [i \in DOMAIN with_div |->
                             with_div[i].dividends_and_other_cash_distributions]
          div_paid_years == Len(SelectSeq(div_periods, LAMBDA d : d < 0))
          dividends == IF div_paid_years > 0 /\ div_paid_years >= (Len(div_periods) \div 2) + 1
                       THEN 1 ELSE 0
      IN  IF total_assets = None \/ total_liabilities = None
          THEN Result(liquidity, "text")
          ELSE Result(liquidity + debt + dividends, "text")

\* sqrt(22.5 * eps * bvps) exceeds the price by more than p / q of the price:
\* both sides are positive, so the squares are compared, times shares squared
MarginAbove(eps, book_value_ps, market_cap, shares, p, q) ==
    225 * eps * book_value_ps * shares * shares * q * q
        > 10 * (p + q) * (p + q) * market_cap * market_cap

analyze_valuation_graham(metrics, financial_line_items, market_cap) ==
    IF Falsy(financial_line_items) \/ market_cap = None
    THEN Result(0, "text")
    ELSE
      LET latest == financial_line_items.items[1]
          OrZero(v) == IF v # None THEN v ELSE 0
          current_assets == OrZero(latest.current_assets)
          total_liabilities == OrZero(latest.total_liabilities)
          book_value_ps == OrZero(latest.book_value_per_share)
          eps == OrZero(latest.earnings_per_share)
          shares_outstanding == OrZero(latest.outstanding_shares)
          net_current_asset_value == current_assets - total_liabilities
          net_net == IF net_current_asset_value > 0 /\ shares_outstanding > 0
                     THEN IF net_current_asset_value > market_cap THEN 4
                          ELSE IF 100 * net_current_asset_value >= 67 * market_cap THEN 2
                          ELSE 0
                     ELSE 0
          graham_number == eps > 0 /\ book_value_ps > 0
          margin == IF graham_number /\ shares_outstanding > 0 /\ market_cap > 0
                    THEN IF MarginAbove(eps, book_value_ps, market_cap,
                                        shares_outstanding, 1, 2) THEN 3
                         ELSE IF MarginAbove(eps, book_value_ps, market_cap,
                                             shares_outstanding, 1, 5) THEN 1
                         ELSE 0
                    ELSE 0
      IN  Result(net_net + margin, "text")

(* nancy_pelosi.py; its scores are counted in halves, as analyze_policy_trends adds 0.5 *)

\* the keyword lists a news title is matched against, for each kind of title
TitleMentions ==
    [plain |-> {},
     bill |-> {"legislation"},
     procurement |-> {"contract"},
     senator |-> {"congress"},
     leaked |-> {"asymmetry"},
     pending_approval |-> {"asymmetry", "high_value"},
     software |-> {"technology"},
     military |-> {"defense"},
     squeeze |-> {"social"},
     headline |-> {"colon"}]

\* any(keyword in title_lower for keyword in <list>)
Mentions(news, list) == list \in TitleMentions[news.title]

policy_areas == {"technology", "healthcare", "finance", "energy", "infrastructure", "defense"}
priority_sectors == {"infrastructure", "technology", "healthcare", "energy"}

analyze_legislation_impact(company_news, ticker) ==
    IF Falsy(company_news)
    THEN Result(0, "text")
    ELSE
      LET relevant == SelectSeq(company_news.items, LAMBDA news : Mentions(news, "legislation"))
          relevant_news_count == Len(relevant)
          positive_legislation_count ==
              Len(SelectSeq(relevant, LAMBDA news : news.sentiment = "positive"))
          negative_legislation_count ==
              Len(SelectSeq(relevant, LAMBDA news : news.sentiment = "negative"))
          net_sentiment == positive_legislation_count - negative_legislation_count
          score == positive_legislation_count - negative_legislation_count
                     + (IF relevant_news_count > 5 THEN 1 ELSE 0)
                     + (IF net_sentiment > 3 THEN 3
                        ELSE IF net_sentiment > 0 THEN 2
                        ELSE IF net_sentiment < -3 THEN -2
                        ELSE IF net_sentiment < 0 THEN -1
                        ELSE 0)
      IN  Result(2 * Max(0, score), "text")

RECURSIVE ProductOf(_)
ProductOf(s) == IF s = <<>> THEN 1 ELSE s[1] * ProductOf(Tail(s))

\* the numerator of sum(abs(r[i] / r[i+1] - 1)) over the denominator ProductOf(Tail(r))
RECURSIVE ChangesOver(_, _)
ChangesOver(r, i) ==
    IF i >= Len(r) THEN 0
    ELSE (IF r[i] >= r[i + 1] THEN r[i] - r[i + 1] ELSE r[i + 1] - r[i])
             * (ProductOf(Tail(r)) \div r[i + 1])
           + ChangesOver(r, i + 1)

\* revenue_volatility < p / q
VolatilityBelow(revenues, p, q) ==
    /\ \A i \in DOMAIN revenues : revenues[i] > 0
    /\ ChangesOver(revenues, 1) * q < p * ProductOf(Tail(revenues)) * (Len(revenues) - 1)

analyze_government_contracts(financial_line_items, company_news) ==
    LET contract_news_count ==
            IF Falsy(company_news) THEN 0
            ELSE Len(SelectSeq(company_news.items, LAMBDA news : Mentions(news, "contract")))
        from_news == IF contract_news_count > 3 THEN 3
                     ELSE IF contract_news_count > 0 THEN 1
                     ELSE 0
        items == financial_line_items.items
        goodwill == items[1].goodwill_and_intangible_assets
        total_assets == items[1].total_assets
        from_goodwill ==
            IF goodwill # None /\ goodwill # 0 /\ total_assets # None /\ total_assets # 0
                 /\ ~RatioAtLeast(3, 10, goodwill, total_assets)   \* ratio > 0.3
            THEN 1 ELSE 0
        with_revenue == SelectSeq(items, LAMBDA item : item.revenue # None)
        revenues == [i \in DOMAIN with_revenue |-> with_revenue[i].revenue]
        from_revenue ==
            IF Len(revenues) >= 3
            THEN IF VolatilityBelow(revenues, 1, 10) THEN 2
                 ELSE IF VolatilityBelow(revenues, 1, 5) THEN 1
                 ELSE 0
            ELSE 0
    IN  IF Falsy(financial_line_items)
        THEN Result(2 * from_news, "text")
        ELSE Result(2 * (from_news + from_goodwill + from_revenue), "text")

analyze_policy_trends(company_news, ticker) ==
    IF company_news.none
    THEN Raises
    ELSE
      LET NewsOn(area) == Len(SelectSeq(company_news.items, LAMBDA news : Mentions(news, area)))
          trending_policy_areas == {area \in policy_areas : NewsOn(area) > 2}
          from_counts == Cardinality({area \in policy_areas : NewsOn(area) > 5}) * 2
                           + Cardinality({area \in policy_areas :
                                            NewsOn(area) > 2 /\ NewsOn(area) <= 5})
          from_priority == IF trending_policy_areas \cap priority_sectors # {} THEN 4 ELSE 0
          from_momentum == IF Cardinality(trending_policy_areas) > 1 THEN 2 ELSE 0
      IN  IF company_news.items = <<>>
          THEN Result(0, "text")
          ELSE Result(from_counts + from_priority + from_momentum, "text")

\* `datetime` is used by analyze_information_asymmetry; the module does not import it
datetime_imported == FALSE

analyze_information_asymmetry(company_news, insider_trades, ticker) ==
    LET news_items == IF Falsy(company_news) THEN <<>> ELSE company_news.items
        asymmetry_news_count ==
            Len(SelectSeq(news_items, LAMBDA news : Mentions(news, "asymmetry")))
        high_value_asymmetry ==
            Len(SelectSeq(news_items, LAMBDA news :
                       Mentions(news, "asymmetry") /\ Mentions(news, "high_value")))
        from_news == IF high_value_asymmetry > 0 THEN 3
                     ELSE IF asymmetry_news_count > 2 THEN 2
                     ELSE IF asymmetry_news_count > 0 THEN 1
                     ELSE 0
        timed == ~Falsy(company_news) /\ ~Falsy(insider_trades)
        \* a trade dated before a news item: the pair whose distance is computed
        earlier == timed /\ \E t \in DOMAIN insider_trades.items, n \in DOMAIN news_items :
                      /\ insider_trades.items[t].transaction_date # 0
                      /\ news_items[n].date # 0
                      /\ insider_trades.items[t].transaction_date < news_items[n].date
        pattern_detected ==
            timed /\ \E t \in DOMAIN insider_trades.items, n \in DOMAIN news_items :
                      /\ insider_trades.items[t].transaction_date # 0
                      /\ news_items[n].date # 0
                      /\ insider_trades.items[t].transaction_date < news_items[n].date
                      /\ news_items[n].date - insider_trades.items[t].transaction_date \in 1..30
    IN  IF earlier /\ ~datetime_imported
        THEN Raises
        ELSE Result(2 * (from_news + (IF pattern_detected THEN 2 ELSE 0)), "text")

congress_heavy_sectors ==
    {"AAPL", "MSFT", "GOOG", "GOOGL", "META", "AMZN", "NVDA",
     "PFE", "JNJ", "MRK", "ABBV", "LLY",
     "LMT", "RTX", "NOC", "GD", "BA",
     "XOM", "CVX", "COP", "SLB", "EOG",
     "JPM", "BAC", "GS", "MS", "WFC"}

high_trading_stocks == {"AAPL", "MSFT", "AMZN", "GOOGL", "TSLA", "NVDA", "PFE", "JNJ"}

analyze_congressional_trading(ticker, insider_trades, company_news) ==
    LET congress_news_count ==
            IF Falsy(company_news) THEN 0
            ELSE Len(SelectSeq(company_news.items, LAMBDA news : Mentions(news, "congress")))
        from_news == IF congress_news_count > 2 THEN 3
                     ELSE IF congress_news_count > 0 THEN 1
                     ELSE 0
        trades == insider_trades.items
        buys == Len(SelectSeq(trades, LAMBDA trade : trade.transaction_shares > 0))
        sells == Len(SelectSeq(trades, LAMBDA trade : trade.transaction_shares < 0))
        from_trades ==
            IF ~Falsy(insider_trades) /\ Len(trades) > 5 /\ buys + sells > 0
            THEN IF 10 * buys > 7 * (buys + sells) THEN 3
                 ELSE IF 10 * buys < 3 * (buys + sells) THEN -2
                 ELSE 0
            ELSE 0
        from_sector == IF ticker \in congress_heavy_sectors THEN 1 ELSE 0
        from_history == IF ticker \in high_trading_stocks THEN 2 ELSE 0
    IN  Result(2 * (from_news + from_trades + from_sector + from_history), "text")

(* wsb_agent.py; its scores are counted in quarters, as analyze_meme_potential adds
   halves and every evaluator halves its total; money and share counts in millions *)

\* the tickers of the model, with len(ticker) and the prefixes startswith() looks for
Tickers == {"AAPL", "GME", "ABCDE"}
len(ticker) == CASE ticker = "GME" -> 3 [] ticker = "AAPL" -> 4 [] OTHER -> 5
startswith(ticker, prefixes) == ticker \in prefixes

meme_tickers == {"GME", "AMC", "BB", "PLTR", "TSLA", "HOOD", "BBBY", "NOK", "WISH", "CLOV"}

\* min(score, 10) / 2 in quarters, for a score in halves
Normalized(score) == Min(score, 20)

analyze_meme_potential(company_news, ticker, market_cap, reddit_posts) ==
    IF company_news.none
    THEN Raises
    ELSE
      LET social_mentions ==
              Len(SelectSeq(company_news.items, LAMBDA news : Mentions(news, "social")))
          from_mentions == IF social_mentions > 10 THEN 10
                           ELSE IF social_mentions > 5 THEN 6
                           ELSE IF social_mentions > 2 THEN 2
                           ELSE 0
          posts == reddit_posts.items
          bullish_posts == Len(SelectSeq(posts, LAMBDA post : post.sentiment = "bullish"))
          engagement[i \in 0..Len(posts)] ==
              IF i = 0 THEN 0 ELSE engagement[i - 1] + posts[i].score + posts[i].num_comments
          total_engagement == engagement[Len(posts)]
          from_volume == IF Len(posts) > 20 THEN 4
                         ELSE IF Len(posts) > 10 THEN 3
                         ELSE IF Len(posts) > 5 THEN 2
                         ELSE IF Len(posts) > 0 THEN 1
                         ELSE 0
          from_sentiment == IF 10 * bullish_posts > 8 * Len(posts) THEN 3
                            ELSE IF 10 * bullish_posts > 6 * Len(posts) THEN 2
                            ELSE 0
          from_engagement == IF total_engagement > 1000 * Len(posts) THEN 3
                             ELSE IF total_engagement > 500 * Len(posts) THEN 2
                             ELSE IF total_engagement > 100 * Len(posts) THEN 1
                             ELSE 0
          reddit_score == IF Falsy(reddit_posts) THEN 0
                          ELSE Min(from_volume + from_sentiment + from_engagement, 10)
          from_market_cap == IF market_cap = None \/ market_cap = 0 THEN 0
                             ELSE IF 100 <= market_cap /\ market_cap <= 10000 THEN 6
                             ELSE IF market_cap < 100 THEN 4
                             ELSE IF market_cap <= 50000 THEN 2
                             ELSE 0
          from_ticker == IF len(ticker) <= 3 THEN 4 ELSE IF len(ticker) = 4 THEN 2 ELSE 0
          first_five == FirstN(company_news.items, 5)
          company_names == {first_five[i].title :
                               i \in {j \in DOMAIN first_five : Mentions(first_five[j], "colon")}}
          brand_score == IF ticker \in meme_tickers THEN 10
                         ELSE 2 * Min(3, Cardinality(company_names))
      IN  Result(Normalized(from_mentions + reddit_score + from_market_cap + from_ticker
                              + brand_score), "text")

analyze_short_squeeze_potential(metrics, financial_line_items, market_cap, ticker) ==
    IF Falsy(metrics) \/ Falsy(financial_line_items)
    THEN Result(0, "text")
    ELSE
      LET items == financial_line_items.items
          latest == items[1]
          cash == latest.cash_and_equivalents
          debt == latest.total_debt
          from_debt == IF Len(metrics.items) >= 2 /\ cash # None /\ cash # 0
                            /\ debt # None /\ debt # 0 /\ debt > 0
                       THEN IF RatioBelow(cash, debt, 3, 10) THEN 2
                            ELSE IF RatioBelow(cash, debt, 7, 10) THEN 1
                            ELSE 0
                       ELSE 0
          shares == latest.outstanding_shares
          floated == market_cap # None /\ market_cap # 0 /\ shares # None /\ shares # 0
          float_score == IF ~floated THEN 0
                         ELSE IF shares < 50 THEN 3
                         ELSE IF shares < 200 THEN 2
                         ELSE IF shares < 500 THEN 1
                         ELSE 0
          with_income == SelectSeq(FirstN(items, 2), LAMBDA item : item.net_income # None)
          losses == Len(SelectSeq(with_income, LAMBDA item : item.net_income < 0))
          profit_score == IF Len(items) >= 2 /\ Len(with_income) > 0
                          THEN IF losses = Len(with_income) THEN 3
                               ELSE IF losses > 0 THEN 2
                               ELSE 0
                          ELSE 0
          industry_score == IF startswith(ticker, {"GME", "AMC", "BB", "NOK"}) THEN 2
                            ELSE IF startswith(ticker, {"TSLA", "LCID", "RIVN"}) THEN 2
                            ELSE IF startswith(ticker, {"PLTR", "AI", "PATH"}) THEN 1
                            ELSE 0
          lines == from_debt + (IF floated THEN 1 ELSE 0) + profit_score + industry_score
      IN  Result(Normalized(2 * (from_debt + float_score + profit_score + industry_score)),
                 JoinedDetails(lines))

analyze_options_potential(metrics, financial_line_items, market_cap) ==
    IF Falsy(metrics) \/ Falsy(financial_line_items) \/ market_cap = None \/ market_cap = 0
    THEN Result(0, "text")
    ELSE
      LET latest == financial_line_items.items[1]
          shares == latest.outstanding_shares
          priced == shares # None /\ shares > 0
          \* share_price = market_cap / shares, compared without dividing
          price_score == IF ~priced THEN 0
                         ELSE IF 10 * shares <= market_cap /\ market_cap <= 500 * shares THEN 3
                         ELSE IF 5 * shares <= market_cap /\ market_cap < 10 * shares THEN 2
                         ELSE IF 500 * shares < market_cap /\ market_cap <= 1000 * shares THEN 2
                         ELSE IF market_cap > 1000 * shares THEN 1
                         ELSE IF market_cap > 0 THEN 1
                         ELSE 0
          pe_ratio == metrics.items[1].price_to_earnings_ratio
          vol_score == IF Len(metrics.items) < 2 \/ pe_ratio = None THEN 0
                       ELSE IF pe_ratio < 0 \/ pe_ratio > 100 THEN 3
                       ELSE IF pe_ratio > 50 THEN 2
                       ELSE 1
          mcap_score == IF market_cap > 10000 THEN 3
                        ELSE IF market_cap > 2000 THEN 2
                        ELSE IF market_cap > 300 THEN 1
                        ELSE 0
          rd == latest.research_and_development
          rd_score == IF rd # None /\ rd # 0 /\ latest.revenue # None /\ latest.revenue # 0
                           /\ ~RatioAtLeast(1, 5, rd, latest.revenue)   \* ratio > 0.2
                      THEN 1 ELSE 0
      IN  Result(Normalized(2 * (price_score + vol_score + mcap_score + rd_score)), "text")

-----------------------------------------------------------------------------
(* The evaluators called on their own, with no data *)

graham_evaluators ==
    {"analyze_earnings_stability", "analyze_financial_strength", "analyze_valuation_graham"}
pelosi_evaluators ==
    {"analyze_legislation_impact", "analyze_government_contracts", "analyze_policy_trends",
     "analyze_information_asymmetry", "analyze_congressional_trading"}
wsb_evaluators ==
    {"analyze_meme_potential", "analyze_short_squeeze_potential", "analyze_options_potential"}

\* the arguments each evaluator takes
Takes(evaluator) ==
    CASE evaluator \in {"analyze_earnings_stability", "analyze_financial_strength"} ->
            {"metrics", "financial_line_items"}
      [] evaluator \in {"analyze_valuation_graham", "analyze_options_potential"} ->
            {"metrics", "financial_line_items", "market_cap"}
      [] evaluator \in {"analyze_legislation_impact", "analyze_policy_trends"} ->
            {"company_news", "ticker"}
      [] evaluator = "analyze_government_contracts" ->
            {"financial_line_items", "company_news"}
      [] evaluator \in {"analyze_information_asymmetry", "analyze_congressional_trading"} ->
            {"company_news", "insider_trades", "ticker"}
      [] evaluator = "analyze_meme_potential" ->
            {"company_news", "ticker", "market_cap", "reddit_posts"}
      [] evaluator = "analyze_short_squeeze_potential" ->
            {"metrics", "financial_line_items", "market_cap", "ticker"}

\* a collection without data: None or the empty list
NoData == {NoneList, List(<<>>)}

\* the calls of one evaluator without data; an argument it does not take is left out
\* of the variation
EvaluatorCalls(evaluator) ==
    LET Arg(name, values, unused) == IF name \in Takes(evaluator) THEN values ELSE {unused} IN
    { [agent |-> "evaluator",
       evaluator |-> evaluator,
       ticker |-> t,
       metrics |-> m,
       financial_line_items |-> f,
       company_news |-> n,
       insider_trades |-> i,
       reddit_posts |-> r,
       market_cap |-> c] :
         t \in Arg("ticker", Tickers, "ABCDE"),
         m \in Arg("metrics", NoData, NoneList),
         f \in Arg("financial_line_items", NoData, NoneList),
         n \in Arg("company_news", NoData, NoneList),
         i \in Arg("insider_trades", NoData, NoneList),
         r \in Arg("reddit_posts", NoData, NoneList),
         c \in Arg("market_cap", {None, 1000}, None) }

Evaluate(inp) ==
    CASE inp.evaluator = "analyze_earnings_stability" ->
            analyze_earnings_stability(inp.metrics, inp.financial_line_items)
      [] inp.evaluator = "analyze_financial_strength" ->
            analyze_financial_strength(inp.metrics, inp.financial_line_items)
      [] inp.evaluator = "analyze_valuation_graham" ->
            analyze_valuation_graham(inp.metrics, inp.financial_line_items, inp.market_cap)
      [] inp.evaluator = "analyze_legislation_impact" ->
            analyze_legislation_impact(inp.company_news, inp.ticker)
      [] inp.evaluator = "analyze_government_contracts" ->
            analyze_government_contracts(inp.financial_line_items, inp.company_news)
      [] inp.evaluator = "analyze_policy_trends" ->
            analyze_policy_trends(inp.company_news, inp.ticker)
      [] inp.evaluator = "analyze_information_asymmetry" ->
            analyze_information_asymmetry(inp.company_news, inp.insider_trades, inp.ticker)
      [] inp.evaluator = "analyze_congressional_trading" ->
            analyze_congressional_trading(inp.ticker, inp.insider_trades, inp.company_news)
      [] inp.evaluator = "analyze_meme_potential" ->
            analyze_meme_potential(inp.company_news, inp.ticker, inp.market_cap,
                                   inp.reddit_posts)
      [] inp.evaluator = "analyze_short_squeeze_potential" ->
            analyze_short_squeeze_potential(inp.metrics, inp.financial_line_items,
                                            inp.market_cap, inp.ticker)
      [] inp.evaluator = "analyze_options_potential" ->
            analyze_options_potential(inp.metrics, inp.financial_line_items, inp.market_cap)

InitEvaluators ==
    /\ pc = "call"
    /\ agent_input \in UNION {EvaluatorCalls(evaluator) :
                                evaluator \in graham_evaluators \cup pelosi_evaluators
                                                \cup wsb_evaluators}
    /\ agent_result = NoResult
    /\ selected_analysts = NoSelection
    /\ workflow = NoWorkflow
    /\ executed = NothingExecuted
    /\ ticker_signals = <<>>
    /\ fa_env = NoEnv
    /\ fa_run = NoRun
    /\ final_analysis = NoVerdict
    /\ IdleRoundTable
    /\ analyst_signals = NoSignals
    /\ IdleTools

GrahamEvaluator ==
    /\ pc = "call"
    /\ agent_input.evaluator \in graham_evaluators
    /\ agent_result' = Evaluate(agent_input)
    /\ pc' = "returned"
    /\ UNCHANGED <<selected_analysts, workflow, executed, agent_input, round_table_vars, analyst_signals, tool_vars>>

PelosiEvaluator ==
    /\ pc = "call"
    /\ agent_input.evaluator \in pelosi_evaluators
    /\ agent_result' = Evaluate(agent_input)
    /\ pc' = "returned"
    /\ UNCHANGED <<selected_analysts, workflow, executed, agent_input, round_table_vars, analyst_signals, tool_vars>>

WSBEvaluator ==
    /\ pc = "call"
    /\ agent_input.evaluator \in wsb_evaluators
    /\ agent_result' = Evaluate(agent_input)
    /\ pc' = "returned"
    /\ UNCHANGED <<selected_analysts, workflow, executed, agent_input, round_table_vars, analyst_signals, tool_vars>>

NextEvaluators ==
    \/ GrahamEvaluator
    \/ PelosiEvaluator
    \/ WSBEvaluator

SpecEvaluators == InitEvaluators /\ [][NextEvaluators]_vars

-----------------------------------------------------------------------------
(* The analyst wrappers: ben_graham_agent, nancy_pelosi_agent, wsb_agent.
   Aggregate scores are counted in twentieths, the common unit of the three personas *)

max_possible_score(agent) ==
    CASE agent = "ben_graham_agent" -> 15
      [] agent = "nancy_pelosi_agent" -> 10
      [] agent = "wsb_agent" -> 15

\* the shares of max_possible_score at which a persona turns bullish and bearish,
\* in hundredths
bullish_share(agent) ==
    CASE agent = "ben_graham_agent" -> 70
      [] agent = "nancy_pelosi_agent" -> 65
      [] agent = "wsb_agent" -> 60

bearish_share(agent) ==
    CASE agent = "ben_graham_agent" -> 30
      [] agent = "nancy_pelosi_agent" -> 35
      [] agent = "wsb_agent" -> 30

\* the comparisons of the mapping the other way round
pre_signal_inverted(agent, total_score) ==
    IF 100 * total_score <= 20 * bullish_share(agent) * max_possible_score(agent)
    THEN "bullish"
    ELSE IF 100 * total_score >= 20 * bearish_share(agent) * max_possible_score(agent)
    THEN "bearish"
    ELSE "neutral"

\* if total_score >= x * max_possible_score ... elif total_score <= y * max_possible_score
pre_signal(agent, total_score) ==
    IF 100 * total_score >= 20 * bullish_share(agent) * max_possible_score(agent)
    THEN "bullish"
    ELSE IF 100 * total_score <= 20 * bearish_share(agent) * max_possible_score(agent)
    THEN "bearish"
    ELSE "neutral"

\* the analysis of one ticker: the evaluators, the total and the signal it maps to
Analysis(agent, parts, total_score) ==
    IF \E i \in DOMAIN parts : parts[i].raised
    THEN [raised |-> TRUE, score |-> 0, signal |-> "none"]
    ELSE [raised |-> FALSE, score |-> total_score, signal |-> pre_signal(agent, total_score)]

ben_graham_analysis(inp) ==
    LET earnings_analysis == analyze_earnings_stability(inp.metrics, inp.financial_line_items)
        strength_analysis == analyze_financial_strength(inp.metrics, inp.financial_line_items)
        valuation_analysis ==
            analyze_valuation_graham(inp.metrics, inp.financial_line_items, inp.market_cap)
    IN  Analysis("ben_graham_agent",
                 <<earnings_analysis, strength_analysis, valuation_analysis>>,
                 20 * (earnings_analysis.score + strength_analysis.score
                         + valuation_analysis.score))

nancy_pelosi_analysis(inp) ==
    LET legislation_analysis == analyze_legislation_impact(inp.company_news, inp.ticker)
        gov_contract_analysis ==
            analyze_government_contracts(inp.financial_line_items, inp.company_news)
        policy_analysis == analyze_policy_trends(inp.company_news, inp.ticker)
        asymmetry_analysis ==
            analyze_information_asymmetry(inp.company_news, inp.insider_trades, inp.ticker)
        congressional_trading ==
            analyze_congressional_trading(inp.ticker, inp.insider_trades, inp.company_news)
    IN  Analysis("nancy_pelosi_agent",
                 <<legislation_analysis, gov_contract_analysis, policy_analysis,
                   asymmetry_analysis, congressional_trading>>,
                 \* 0.2 of each score; the scores are in halves
                 2 * (legislation_analysis.score + gov_contract_analysis.score
                        + policy_analysis.score + asymmetry_analysis.score
                        + congressional_trading.score))

wsb_analysis(inp) ==
    LET meme_analysis ==
            analyze_meme_potential(inp.company_news, inp.ticker, inp.market_cap,
                                   inp.reddit_posts)
        squeeze_analysis ==
            analyze_short_squeeze_potential(inp.metrics, inp.financial_line_items,
                                            inp.market_cap, inp.ticker)
        options_analysis ==
            analyze_options_potential(inp.metrics, inp.financial_line_items, inp.market_cap)
    IN  Analysis("wsb_agent",
                 <<meme_analysis, squeeze_analysis, options_analysis>>,
                 \* the scores are in quarters
                 5 * (meme_analysis.score + squeeze_analysis.score + options_analysis.score))

\* what call_llm returns: the model's answer, or the default of default_factory
create_default_signal == [signal |-> "neutral", confidence |-> 0]
call_llm == {[signal |-> "bullish", confidence |-> 80], create_default_signal}

\* annual periods of line items after the latest
MaxPeriods == 2
\* news items and insider trades of a ticker
MaxNews == 6
MaxTrades == 6
\* Reddit posts of a ticker
MaxPosts == 1

Repeat(x, n) == [i \in 1..n |-> x]

AgentInput(agent, ticker, metrics, items, market_cap, news, trades, posts) ==
    [agent |-> agent, ticker |-> ticker, metrics |-> metrics,
     financial_line_items |-> items, market_cap |-> market_cap,
     company_news |-> news, insider_trades |-> trades, reddit_posts |-> posts]

\* line items as ben_graham_agent requests them: the latest period, then earlier ones
GrahamLineItems ==
    LET latest == [earnings_per_share : {None, -1, 1, 2},
                   book_value_per_share : {None, 10},
                   current_assets : {None, 1000},
                   current_liabilities : {None, 100},
                   total_assets : {None, 2000},
                   total_liabilities : {200, 1200},
                   dividends_and_other_cash_distributions : {None, -5},
                   outstanding_shares : {None, 100}]
        earlier == [earnings_per_share : {-1, 2},
                    book_value_per_share : {None},
                    current_assets : {None},
                    current_liabilities : {None},
                    total_assets : {None},
                    total_liabilities : {None},
                    dividends_and_other_cash_distributions : {None, -5},
                    outstanding_shares : {None}]
    IN  {List(<<>>)}
          \cup {List(<<l>>) : l \in latest}
          \cup {List(<<l>> \o Repeat(e, n)) : l \in latest, e \in earlier, n \in 1..(MaxPeriods - 1)}

SomeMetrics(pe, n) == List(Repeat([price_to_earnings_ratio |-> pe], n))

GrahamInputs ==
    {AgentInput("ben_graham_agent", "AAPL", m, f, c, List(<<>>), List(<<>>), List(<<>>)) :
        m \in {List(<<>>), SomeMetrics(20, 1)},
        f \in GrahamLineItems,
        c \in {None, 100, 1000}}

\* news as get_company_news returns it, and with the sentiments a caller may supply;
\* dates are day numbers
PelosiNews ==
    LET items == [title : {"plain", "procurement", "senator", "leaked", "pending_approval",
                           "software", "military"},
                  sentiment : {"neutral"}, date : {10}]
                    \cup [title : {"bill"}, sentiment : {"positive", "negative", "neutral"},
                          date : {10}]
    IN  {List(Repeat(item, n)) : item \in items, n \in 0..MaxNews}

\* insider trades as get_insider_trades returns them; date 0 is the empty string
InsiderTrades ==
    LET trades == [transaction_shares : {100, -100}, transaction_date : {0, 5, 30}]
    IN  {List(Repeat(trade, n)) : trade \in trades, n \in 0..MaxTrades}

PelosiLineItems ==
    {List(<<>>),
     List(<<[revenue |-> 100, total_assets |-> 1000, goodwill_and_intangible_assets |-> 400],
            [revenue |-> 100, total_assets |-> 1000, goodwill_and_intangible_assets |-> None],
            [revenue |-> 95, total_assets |-> None, goodwill_and_intangible_assets |-> None]>>)}

PelosiInputs ==
    {AgentInput("nancy_pelosi_agent", t, SomeMetrics(20, 1), f, 1000, n, i, List(<<>>)) :
        t \in {"AAPL", "ABCDE"},
        f \in PelosiLineItems,
        n \in PelosiNews,
        i \in InsiderTrades}

WSBNews ==
    {List(Repeat([title |-> title, sentiment |-> "neutral", date |-> 10], n)) :
        title \in {"plain", "squeeze", "headline"}, n \in 0..MaxNews}

RedditPosts ==
    LET posts == [sentiment : {"bullish", "bearish"}, score : {50, 2000}, num_comments : {10}]
    IN  {List(Repeat(post, n)) : post \in posts, n \in 0..MaxPosts}

WSBLineItems ==
    LET Item(shares, income) ==
            [revenue |-> 100, net_income |-> income, outstanding_shares |-> shares,
             cash_and_equivalents |-> 10, total_debt |-> 100, research_and_development |-> 30]
    IN  {List(<<>>),
         List(<<Item(None, None)>>),
         List(<<Item(40, -5), Item(40, -7)>>)}

WSBInputs ==
    {AgentInput("wsb_agent", t, m, f, c, n, List(<<>>), r) :
        t \in Tickers,
        m \in {List(<<>>), SomeMetrics(120, 2)},
        f \in WSBLineItems,
        c \in {None, 1000, 20000},
        n \in WSBNews,
        r \in RedditPosts}

InitAgents ==
    /\ pc = "call"
    /\ agent_input \in GrahamInputs \cup PelosiInputs \cup WSBInputs
    /\ agent_result = NoResult
    /\ selected_analysts = NoSelection
    /\ workflow = NoWorkflow
    /\ executed = NothingExecuted
    /\ ticker_signals = <<>>
    /\ fa_env = NoEnv
    /\ fa_run = NoRun
    /\ final_analysis = NoVerdict
    /\ IdleRoundTable
    /\ analyst_signals = NoSignals
    /\ IdleTools

\* what a wrapper leaves behind: the analysis of the ticker and the signal stored in
\* analyst_signals, or the exception that left it
WrapperResult(agent, analysis, llm_output) ==
    [agent |-> agent, raised |-> analysis.raised, score |-> analysis.score,
     pre_signal |-> analysis.signal, signal |-> llm_output.signal,
     confidence |-> llm_output.confidence]

NoOutput == [signal |-> "none", confidence |-> 0]

BenGrahamAgent ==
    /\ pc = "call"
    /\ agent_input.agent = "ben_graham_agent"
    /\ LET analysis == ben_graham_analysis(agent_input) IN
          IF analysis.raised
          THEN /\ agent_result' = WrapperResult("ben_graham_agent", analysis, NoOutput)
               /\ pc' = "raised"
          ELSE /\ \E graham_output \in call_llm :
                     agent_result' = WrapperResult("ben_graham_agent", analysis, graham_output)
               /\ pc' = "returned"
    /\ UNCHANGED <<selected_analysts, workflow, executed, agent_input, round_table_vars, analyst_signals, tool_vars>>

NancyPelosiAgent ==
    /\ pc = "call"
    /\ agent_input.agent = "nancy_pelosi_agent"
    /\ LET analysis == nancy_pelosi_analysis(agent_input) IN
          IF analysis.raised
          THEN /\ agent_result' = WrapperResult("nancy_pelosi_agent", analysis, NoOutput)
               /\ pc' = "raised"
          ELSE /\ \E pelosi_output \in call_llm :
                     agent_result' = WrapperResult("nancy_pelosi_agent", analysis, pelosi_output)
               /\ pc' = "returned"
    /\ UNCHANGED <<selected_analysts, workflow, executed, agent_input, round_table_vars, analyst_signals, tool_vars>>

WSBAgent ==
    /\ pc = "call"
    /\ agent_input.agent = "wsb_agent"
    /\ LET analysis == wsb_analysis(agent_input) IN
          IF analysis.raised
          THEN /\ agent_result' = WrapperResult("wsb_agent", analysis, NoOutput)
               /\ pc' = "raised"
          ELSE /\ \E wsb_output \in call_llm :
                     agent_result' = WrapperResult("wsb_agent", analysis, wsb_output)
               /\ pc' = "returned"
    /\ UNCHANGED <<selected_analysts, workflow, executed, agent_input, round_table_vars, analyst_signals, tool_vars>>

NextAgents ==
    \/ BenGrahamAgent
    \/ NancyPelosiAgent
    \/ WSBAgent

SpecAgents == InitAgents /\ [][NextAgents]_vars

-----------------------------------------------------------------------------
(* The mapping from an aggregate score to the signal, applied to pairs of scores *)

\* aggregate scores in twentieths; the highest is above every max_possible_score
MaxScore == 320

\* scores from below 0 to MaxScore in quarters of a point
Scores == {s \in -20..MaxScore : s % 5 = 0}

InitSignal ==
    /\ pc = "call"
    /\ agent_input \in
          {pair \in [agent : {"ben_graham_agent", "nancy_pelosi_agent", "wsb_agent"},
                     low : Scores, high : Scores] :
              pair.low <= pair.high /\ pair.high <= pair.low + 160}
    /\ agent_result = NoResult
    /\ selected_analysts = NoSelection
    /\ workflow = NoWorkflow
    /\ executed = NothingExecuted
    /\ ticker_signals = <<>>
    /\ fa_env = NoEnv
    /\ fa_run = NoRun
    /\ final_analysis = NoVerdict
    /\ IdleRoundTable
    /\ analyst_signals = NoSignals
    /\ IdleTools

\* the signal of each of the two scores
MapScores ==
    /\ pc = "call"
    /\ agent_result' = [agent |-> agent_input.agent,
                        low |-> pre_signal(agent_input.agent, agent_input.low),
                        high |-> pre_signal(agent_input.agent, agent_input.high)]
    /\ pc' = "returned"
    /\ UNCHANGED <<selected_analysts, workflow, executed, agent_input, round_table_vars, analyst_signals, tool_vars>>

NextSignal == MapScores

SpecSignal == InitSignal /\ [][NextSignal]_vars

-----------------------------------------------------------------------------
(* generate_questions as simulate_round_table calls it: the round table has *)
(* opened, the primary debaters are selected, the questioning is next       *)

QuestioningVotes == { [signal |-> "bullish", confidence |-> 80] }

InitQuestioning ==
    /\ pc = "questioning"
    /\ ticker_signals \in
          SignalMaps(DebaterKeys, WithReasoning(QuestioningVotes, {"long"}), MaxDebaterKeys)
    /\ analysts = setup_analysts(ticker_signals)
    /\ idx = Len(analysts) + 1
    /\ full_transcript =
          <<generate_moderator_intro>>
             \o [i \in 1..Len(SelectSeq(analysts, LAMBDA a : a \in Keys(ticker_signals))) |->
                   Utterance("opening",
                             SelectSeq(analysts, LAMBDA a : a \in Keys(ticker_signals))[i],
                             "llm")]
    /\ primary_debaters = select_primary_debaters(ticker_signals, analysts)
    /\ conversation_turns = <<>>
    /\ questions = <<>>
    /\ final_analysis = NoVerdict
    /\ output = NoVerdict
    /\ faults = 0
    /\ fa_env = NoEnv
    /\ fa_run = NoRun
    /\ IdlePipeline
    /\ IdleTools

NextQuestioning == Questioning

SpecQuestioning == InitQuestioning /\ [][NextQuestioning]_vars

-----------------------------------------------------------------------------
(* identify_debate_topics and generate_debate_exchanges on their own *)

\* lines of a response text that is not valid JSON
MaxLines == 4

\* elements of a JSON array: strings, and an object in place of a string
Topic(text) == [type |-> "str", text |-> text]
ObjectTopic == [type |-> "dict", text |-> "{...}"]

default_topics == <<Topic("Valuation"), Topic("Growth Prospects"), Topic("Competitive Position")>>

\* a line of text: "1. Moat", "- Margins", "* Margins", "Risk", "", "{...", or a
\* bracketed line "[a, b]" that is no JSON array, given by its comma-separated items
\* after stripping blanks and quotes, and by whether the closing bracket is there
Line(lead, text, items, closed) ==
    [lead |-> lead, text |-> text, items |-> items, closed |-> closed]

TopicLines ==
    { Line("numbered", "Moat", <<>>, FALSE), Line("bullet", "Margins", <<>>, FALSE),
      Line("plain", "Risk", <<>>, FALSE) }

SkippedLines == { Line("empty", "", <<>>, FALSE), Line("brace", "", <<>>, FALSE) }

BracketItems ==
    { <<"">>, <<"", "">>, <<"Moat">>, <<"Moat", "", "Margins", "Risk", "Debt">> }

BracketLines == { Line("bracket", "", items, closed) : items \in BracketItems, closed \in BOOLEAN }

\* the values json.loads may return for a text that is valid JSON
JsonValues ==
    { [type |-> "list", items |-> items] :
        items \in UNION { [1..n -> {Topic("Moat"), Topic("Margins"), ObjectTopic}] : n \in 0..4 } }
    \cup { [type |-> t, items |-> <<>>] : t \in {"dict", "str", "int", "null"} }

\* the texts that json.loads rejects: up to MaxLines lines, one of them at most bracketed
Texts ==
    UNION { { t \in [1..n -> TopicLines \cup SkippedLines \cup BracketLines] :
                Cardinality({i \in 1..n : t[i].lead = "bracket"}) <= 1 } : n \in 0..MaxLines }

\* what call_llm does for the topic prompt: it raises, or returns a text
TopicResponse(form, value, lines) == [form |-> form, value |-> value, lines |-> lines]

TopicResponses ==
    { TopicResponse("raises", [type |-> "null", items |-> <<>>], <<>>) }
    \cup { TopicResponse("json", v, <<>>) : v \in JsonValues }
    \cup { TopicResponse("text", [type |-> "null", items |-> <<>>], t) : t \in Texts }

\* second attempt: the topics of the numbered, bulleted and plain lines
extracted_topics(lines) ==
    LET kept == SelectSeq(lines, LAMBDA l : l.lead \in {"numbered", "bullet", "plain"})
    IN  [i \in DOMAIN kept |-> Topic(kept[i].text)]

\* third attempt: the non-blank items between the first '[' and the last ']'
potential_topics(lines) ==
    LET bracketed == SelectSeq(lines, LAMBDA l : l.lead = "bracket")
        kept == SelectSeq(bracketed[1].items, LAMBDA t : t # "")
    IN  [i \in DOMAIN kept |-> Topic(kept[i])]

identify_debate_topics(response) ==
    IF response.form = "raises" THEN default_topics
    ELSE IF response.form = "json"
    THEN IF response.value.type = "list" /\ Len(response.value.items) > 0
         THEN FirstN(response.value.items, 3)
         ELSE default_topics
    ELSE IF extracted_topics(response.lines) # <<>>
    THEN FirstN(extracted_topics(response.lines), 3)
    ELSE IF \E i \in DOMAIN response.lines :
                response.lines[i].lead = "bracket" /\ response.lines[i].closed
    THEN FirstN(potential_topics(response.lines), 3)
    ELSE default_topics

\* responses handed to generate_debate_exchanges: one for every way the topics
\* are found, or not
DebateResponses ==
    { r \in TopicResponses :
        \/ r.form = "raises"
        \/ r.form = "json" /\ Len(r.value.items) <= 2
        \/ r.form = "text" /\ Len(r.lines) <= 1 }

DebaterLists == { SubSeq(<<"Ben Graham", "WSB", "Nancy Pelosi">>, 1, n) : n \in 0..3 }

\* primary debaters handed to generate_synthesis: none, or up to 4
SynthesisLists ==
    { SubSeq(<<"Ben Graham", "WSB", "Nancy Pelosi", "Warren Buffett">>, 1, n) : n \in 0..4 }

\* topics[0] of an empty list, or a topic that is no string in a prompt
DebateRaises(topics, debaters) ==
    \/ topics = <<>>
    \/ /\ Len(debaters) >= 2
       /\ \E i \in 1..Min(2, Len(topics)) : topics[i].type # "str"

InitTopics ==
    /\ pc = "call"
    /\ tool_input \in
          { [fn |-> "identify_debate_topics", response |-> r, primary_debaters |-> <<>>] :
              r \in TopicResponses }
          \cup { [fn |-> "generate_debate_exchanges", response |-> r, primary_debaters |-> d] :
                   r \in DebateResponses, d \in DebaterLists }
          \cup { [fn |-> "generate_synthesis",
                  response |-> TopicResponse("raises", [type |-> "null", items |-> <<>>], <<>>),
                  primary_debaters |-> d] : d \in SynthesisLists }
    /\ tool_result = NoReturn
    /\ ticker_signals = <<>>
    /\ fa_env = NoEnv
    /\ fa_run = NoRun
    /\ final_analysis = NoVerdict
    /\ IdleRoundTable
    /\ IdlePipeline
    /\ IdleWeb

\* topics = identify_debate_topics(...)
IdentifyDebateTopics ==
    /\ pc = "call"
    /\ tool_input.fn = "identify_debate_topics"
    /\ tool_result' = [fn |-> "identify_debate_topics", raised |-> FALSE,
                       topics |-> identify_debate_topics(tool_input.response),
                       exchanges |-> <<>>]
    /\ pc' = "returned"
    /\ UNCHANGED <<tool_input, round_table_vars, pipeline_vars, web_vars>>

\* exchanges = generate_debate_exchanges(...): the exchanges, or the exception
\* that leaves it
GenerateDebateExchanges ==
    /\ pc = "call"
    /\ tool_input.fn = "generate_debate_exchanges"
    /\ LET topics == identify_debate_topics(tool_input.response)
           debaters == tool_input.primary_debaters
       IN  IF DebateRaises(topics, debaters)
           THEN /\ tool_result' = [fn |-> "generate_debate_exchanges", raised |-> TRUE,
                                   topics |-> topics, exchanges |-> <<>>]
                /\ pc' = "raised"
           ELSE /\ \E ex \in generate_debate_exchanges(debaters, Len(topics), 2 * Len(topics)) :
                      tool_result' = [fn |-> "generate_debate_exchanges", raised |-> FALSE,
                                      topics |-> topics, exchanges |-> ex]
                /\ pc' = "returned"
    /\ UNCHANGED <<tool_input, round_table_vars, pipeline_vars, web_vars>>

\* synthesis = generate_synthesis(..., analysts=primary_debaters, ...): any of its
\* LLM calls may raise
GenerateSynthesis ==
    /\ pc = "call"
    /\ tool_input.fn = "generate_synthesis"
    /\ \E sy \in generate_synthesis(tool_input.primary_debaters, 3) :
          tool_result' = [fn |-> "generate_synthesis", raised |-> FALSE,
                          topics |-> <<>>, exchanges |-> sy]
    /\ pc' = "returned"
    /\ UNCHANGED <<tool_input, round_table_vars, pipeline_vars, web_vars>>

NextTopics ==
    \/ IdentifyDebateTopics
    \/ GenerateDebateExchanges
    \/ GenerateSynthesis

SpecTopics == InitTopics /\ [][NextTopics]_vars

-----------------------------------------------------------------------------
(* run_round_table and the end of the analyst wrappers, each run twice on the *)
(* same arguments and outcomes: with show_reasoning set and without           *)

RoundTableTickers == <<"AAPL", "GME">>

\* what an agent has stored for the tickers it analysed
StoredSignals ==
    UNION { [ts -> {[signal |-> "bullish", confidence |-> 80]}] : ts \in SUBSET RunTickers }

\* data["analyst_signals"]: the entries of some agents
SignalStores ==
    UNION { [as -> StoredSignals] :
              as \in SUBSET {"ben_graham_agent", "wsb_agent", "risk_management_agent",
                             "round_table"} }

\* what simulate_round_table does for a ticker: it returns an output, or raises
RoundTableOutcomes ==
    { [raised |-> FALSE, signal |-> "bullish", confidence |-> 80],
      [raised |-> FALSE, signal |-> "neutral", confidence |-> 50],
      [raised |-> TRUE, signal |-> "none", confidence |-> 0] }

\* the signals of the agents that have an entry for the ticker, risk management
\* and the round table left out
TickerSignalsOf(data, ticker) ==
    LET filtered == {a \in DOMAIN data.analyst_signals :
                        a \notin {"risk_management_agent", "round_table"}}
        present == {a \in filtered : ticker \in DOMAIN data.analyst_signals[a]}
    IN  [a \in present |-> data.analyst_signals[a][ticker]]

\* the loop over the tickers from the i-th on
RECURSIVE RoundTableLoop(_, _, _, _, _)
RoundTableLoop(data, outcomes, show_reasoning, i, so_far) ==
    IF i > Len(data.tickers) THEN so_far
    ELSE LET ticker == data.tickers[i] IN
         IF DOMAIN TickerSignalsOf(data, ticker) = {}
         THEN RoundTableLoop(data, outcomes, show_reasoning, i + 1, so_far)
         ELSE IF outcomes[ticker].raised
         THEN [raised |-> TRUE, value |-> NoSignals, printed |-> so_far.printed,
               debated |-> (ticker :> TickerSignalsOf(data, ticker)) @@ so_far.debated]
         ELSE RoundTableLoop(data, outcomes, show_reasoning, i + 1,
                 [raised |-> FALSE,
                  debated |-> (ticker :> TickerSignalsOf(data, ticker)) @@ so_far.debated,
                  value |-> (ticker :> [signal |-> outcomes[ticker].signal,
                                        confidence |-> outcomes[ticker].confidence])
                               @@ so_far.value,
                  printed |-> so_far.printed
                                 \o <<[agent |-> ticker,
                                       shown |-> IF show_reasoning THEN "conversation"
                                                 ELSE "preview"]>>])

\* value: what is returned; debated: the ticker_signals handed to
\* simulate_round_table, ticker by ticker
run_round_table(data, outcomes, show_reasoning) ==
    IF DOMAIN data.analyst_signals = {}
    THEN [raised |-> FALSE, value |-> NoSignals, printed |-> <<>>, debated |-> NoSignals]
    ELSE LET looped == RoundTableLoop(data, outcomes, show_reasoning, 1,
                          [raised |-> FALSE, value |-> NoSignals, printed |-> <<>>,
                           debated |-> NoSignals])
         IN  IF looped.raised \/ ~show_reasoning THEN looped
             ELSE [looped EXCEPT !.printed =
                      @ \o show_agent_reasoning(looped.value, "Investment Round Table")]

InitReasoning ==
    /\ pc = "call"
    /\ tool_input \in
          { [fn |-> "run_round_table",
             data |-> [analyst_signals |-> s, tickers |-> RoundTableTickers],
             outcomes |-> o] : s \in SignalStores, o \in [RunTickers -> RoundTableOutcomes] }
          \cup { [fn |-> n, data |-> [analyst_signals |-> s, tickers |-> RoundTableTickers],
                  outcomes |-> a] :
                   n \in WrapperNodes, a \in WrapperAnalyses,
                   s \in {t \in SignalStores : DOMAIN t \subseteq {"wsb_agent"}} }
    /\ tool_result = NoReturn
    /\ ticker_signals = <<>>
    /\ fa_env = NoEnv
    /\ fa_run = NoRun
    /\ final_analysis = NoVerdict
    /\ IdleRoundTable
    /\ IdlePipeline
    /\ IdleWeb

\* run_round_table(data, ..., show_reasoning=True) and (..., show_reasoning=False)
RunRoundTableBothWays ==
    /\ pc = "call"
    /\ tool_input.fn = "run_round_table"
    /\ tool_result' =
          [fn |-> "run_round_table",
           shown |-> [run_round_table(tool_input.data, tool_input.outcomes, TRUE)
                         EXCEPT !.printed = Len(@)]
                        @@ [analyst_signals |-> tool_input.data.analyst_signals],
           quiet |-> [run_round_table(tool_input.data, tool_input.outcomes, FALSE)
                         EXCEPT !.printed = Len(@)]
                        @@ [analyst_signals |-> tool_input.data.analyst_signals]]
    /\ pc' = "returned"
    /\ UNCHANGED <<tool_input, round_table_vars, pipeline_vars, web_vars>>

\* the end of a wrapper with metadata["show_reasoning"] set, and not set
WrapperBothWays ==
    /\ pc = "call"
    /\ tool_input.fn \in WrapperNodes
    /\ LET Ends(show_reasoning) ==
              LET end == wrapper_return(tool_input.fn, tool_input.outcomes,
                                        tool_input.data.analyst_signals, show_reasoning)
              IN  [raised |-> FALSE, value |-> end.messages, printed |-> Len(end.printed),
                   analyst_signals |-> end.analyst_signals]
       IN  tool_result' = [fn |-> tool_input.fn, shown |-> Ends(TRUE), quiet |-> Ends(FALSE)]
    /\ pc' = "returned"
    /\ UNCHANGED <<tool_input, round_table_vars, pipeline_vars, web_vars>>

NextReasoning ==
    \/ RunRoundTableBothWays
    \/ WrapperBothWays

SpecReasoning == InitReasoning /\ [][NextReasoning]_vars

-----------------------------------------------------------------------------
(* The data tools on their own (src/src/tools/api.py) *)

\* characters of a ticker's base
MaxTickerLen == 6

\* a ticker is the sequence of its characters
Digits == {"0", "1", "2", "3", "4", "5", "6", "7", "8", "9"}

\* str.isdigit
isdigit(s) == s # <<>> /\ \A i \in DOMAIN s : s[i] \in Digits

\* str.lower on the letters of the model
lower(s) ==
    [i \in DOMAIN s |->
        CASE s[i] = "A" -> "a" [] s[i] = "H" -> "h" [] s[i] = "K" -> "k"
          [] s[i] = "T" -> "t" [] s[i] = "W" -> "w" [] OTHER -> s[i]]

\* str.endswith
endswith(s, suffix) ==
    Len(s) >= Len(suffix) /\ SubSeq(s, Len(s) - Len(suffix) + 1, Len(s)) = suffix

\* str.zfill on a string of digits
zfill(s, width) ==
    IF Len(s) >= width THEN s ELSE [i \in 1..(width - Len(s)) |-> "0"] \o s

DigitValue(c) ==
    CASE c = "0" -> 0 [] c = "1" -> 1 [] c = "2" -> 2 [] c = "3" -> 3 [] c = "4" -> 4
      [] c = "5" -> 5 [] c = "6" -> 6 [] c = "7" -> 7 [] c = "8" -> 8 [] c = "9" -> 9

\* int(ticker) of a string of digits
RECURSIVE int(_)
int(s) == IF s = <<>> THEN 0 ELSE 10 * int(SubSeq(s, 1, Len(s) - 1)) + DigitValue(s[Len(s)])

Suffix(market) ==
    CASE market = "HK" -> <<".", "H", "K">>
      [] market = "TW" -> <<".", "T", "W">>
      [] market = "SS" -> <<".", "S", "S">>
      [] market = "SZ" -> <<".", "S", "Z">>

\* a ticker with a dot: a .hk suffix in any case becomes .HK after the digits
\* filled to 4, any other ticker is kept
format_suffixed(ticker) ==
    IF endswith(lower(ticker), <<".", "h", "k">>)
    THEN LET base_ticker == SubSeq(ticker, 1, Len(ticker) - 3)
         IN  (IF isdigit(base_ticker) THEN zfill(base_ticker, 4) ELSE base_ticker)
                \o Suffix("HK")
    ELSE ticker

\* 6 digits: Shanghai or Shenzhen by the first digit; any other length is kept
format_mainland(ticker) ==
    IF Len(ticker) = 6
    THEN IF ticker[1] = "6" THEN ticker \o Suffix("SS")
         ELSE IF ticker[1] \in {"0", "2", "3"} THEN ticker \o Suffix("SZ")
         ELSE ticker \o Suffix("SS")
    ELSE ticker

\* the formatting that tests for a Hong Kong ticker before it tests for 4 digits
hong_kong_before_taiwan(ticker) ==
    IF "." \in Range(ticker) THEN format_suffixed(ticker)
    ELSE IF isdigit(ticker)
    THEN IF Len(ticker) <= 4 /\ int(ticker) <= 9999 THEN zfill(ticker, 4) \o Suffix("HK")
         ELSE IF Len(ticker) = 4 THEN ticker \o Suffix("TW")
         ELSE format_mainland(ticker)
    ELSE ticker

_format_ticker_for_yfinance(ticker) ==
    IF "." \in Range(ticker) THEN format_suffixed(ticker)
    ELSE IF isdigit(ticker)
    THEN IF Len(ticker) = 4 THEN ticker \o Suffix("TW")
         ELSE IF Len(ticker) <= 4 /\ int(ticker) <= 9999 THEN zfill(ticker, 4) \o Suffix("HK")
         ELSE format_mainland(ticker)
    ELSE ticker

\* tickers: up to MaxTickerLen digits and letters, with or without a suffix
TickerBases == UNION { [1..n -> {"0", "6", "7", "A"}] : n \in 0..MaxTickerLen }

TickerSuffixes == { <<>>, <<".", "h", "k">>, <<".", "H", "k">>, Suffix("TW") }

TickerInputs == { base \o suffix : base \in TickerBases, suffix \in TickerSuffixes }

\* what a source of prices does in one call of get_prices
CacheOutcomes == {"miss", "hit", "hit_outside_dates"}
YahooOutcomes == {"prices", "empty", "raises"}
KeyedOutcomes == {"no_key", "prices", "no_data", "raises"}
CoinCapOutcomes == {"prices", "no_data", "raises"}

PriceCalls ==
    [fn : {"get_prices"}, is_crypto : BOOLEAN, cache : CacheOutcomes, yahoo : YahooOutcomes,
     stockdata : KeyedOutcomes, alpha_vantage : KeyedOutcomes, coincap : CoinCapOutcomes]

\* a list of Price records from one source, and whether it was put into the cache
Prices(source, cached) ==
    [type |-> "list", prices |-> <<[source |-> source]>>, cached |-> cached]

EmptyList == [type |-> "list", prices |-> <<>>, cached |-> FALSE]

\* what a function returns when it ends without a return statement
ReturnsNone == [type |-> "None", prices |-> <<>>, cached |-> FALSE]

\* CoinCap's prices, or the end of the function after the except block
get_crypto_prices(call) ==
    IF call.coincap = "prices" THEN Prices("coincap", TRUE) ELSE ReturnsNone

get_prices(call) ==
    IF call.cache = "hit" THEN Prices("cache", FALSE)
    ELSE IF call.is_crypto THEN get_crypto_prices(call)
    ELSE IF call.yahoo = "prices" THEN Prices("yahoo", TRUE)
    ELSE IF call.stockdata = "prices" THEN Prices("stockdata", TRUE)
    ELSE IF call.alpha_vantage = "prices" THEN Prices("alpha_vantage", TRUE)
    ELSE EmptyList

InitTools ==
    /\ pc = "call"
    /\ tool_input \in
          { [fn |-> "_format_ticker_for_yfinance", ticker |-> t] : t \in TickerInputs }
          \cup PriceCalls
    /\ tool_result = NoReturn
    /\ ticker_signals = <<>>
    /\ fa_env = NoEnv
    /\ fa_run = NoRun
    /\ final_analysis = NoVerdict
    /\ IdleRoundTable
    /\ IdlePipeline
    /\ IdleWeb

FormatTicker ==
    /\ pc = "call"
    /\ tool_input.fn = "_format_ticker_for_yfinance"
    /\ tool_result' = [fn |-> "_format_ticker_for_yfinance",
                       returned |-> _format_ticker_for_yfinance(tool_input.ticker)]
    /\ pc' = "returned"
    /\ UNCHANGED <<tool_input, round_table_vars, pipeline_vars, web_vars>>

GetPrices ==
    /\ pc = "call"
    /\ tool_input.fn = "get_prices"
    /\ tool_result' = [fn |-> "get_prices", returned |-> get_prices(tool_input)]
    /\ pc' = "returned"
    /\ UNCHANGED <<tool_input, round_table_vars, pipeline_vars, web_vars>>

NextTools ==
    \/ FormatTicker
    \/ GetPrices

SpecTools == InitTools /\ [][NextTools]_vars
-----------------------------------------------------------------------------
(* The divisions of the evaluators: which ones a call carries out, on which operands *)

\* `if x:` for a number that may be None
Truthy(v) == v # None /\ v # 0

\* a value computed from present operands: a float, never None
Computed == 1

Division(site, numerator, denominator) ==
    [site |-> site, numerator |-> numerator, denominator |-> denominator]

\* ben_graham.py: current_assets / current_liabilities, total_liabilities / total_assets
strength_divisions(metrics, financial_line_items) ==
    IF Falsy(financial_line_items) THEN {}
    ELSE
      LET latest_item == financial_line_items.items[1]
          current_assets == IF latest_item.current_assets # None
                            THEN latest_item.current_assets ELSE 0
          current_liabilities == IF latest_item.current_liabilities # None
                                 THEN latest_item.current_liabilities ELSE 0
          total_assets == latest_item.total_assets
          total_liabilities == latest_item.total_liabilities
      IN  (IF current_assets # 0 /\ current_liabilities # 0
           THEN {Division("current_ratio", current_assets, current_liabilities)} ELSE {})
          \cup
          (IF total_assets # None /\ total_liabilities # None /\ total_assets > 0
           THEN {Division("debt_ratio", total_liabilities, total_assets)} ELSE {})

\* ben_graham.py: the per-share values and the margin of safety; current_price is
\* market_cap / shares_outstanding with shares_outstanding > 0, so it is zero or
\* negative as market_cap is
valuation_divisions(metrics, financial_line_items, market_cap) ==
    IF Falsy(financial_line_items) \/ market_cap = None THEN {}
    ELSE
      LET latest == financial_line_items.items[1]
          Or0(v) == IF v # None THEN v ELSE 0
          net_current_asset_value == Or0(latest.current_assets) - Or0(latest.total_liabilities)
          shares_outstanding == Or0(latest.outstanding_shares)
          graham_number == Or0(latest.earnings_per_share) > 0
                              /\ Or0(latest.book_value_per_share) > 0
      IN  (IF net_current_asset_value > 0 /\ shares_outstanding > 0
           THEN {Division("ncav_per_share", net_current_asset_value, shares_outstanding),
                 Division("price_per_share", market_cap, shares_outstanding)}
           ELSE {})
          \cup
          (IF graham_number /\ shares_outstanding > 0
           THEN {Division("current_price", market_cap, shares_outstanding)}
                   \cup (IF market_cap > 0
                         THEN {Division("margin_of_safety", Computed, market_cap)} ELSE {})
           ELSE {})

\* nancy_pelosi.py: goodwill / total_assets, revenues[i] / revenues[i+1] and the mean
contracts_divisions(financial_line_items, company_news) ==
    IF Falsy(financial_line_items) THEN {}
    ELSE
      LET items == financial_line_items.items
          goodwill == items[1].goodwill_and_intangible_assets
          total_assets == items[1].total_assets
          with_revenue == SelectSeq(items, LAMBDA item : item.revenue # None)
          revenues == [i \in DOMAIN with_revenue |-> with_revenue[i].revenue]
      IN  (IF Truthy(goodwill) /\ Truthy(total_assets)
           THEN {Division("goodwill_to_assets", goodwill, total_assets)} ELSE {})
          \cup
          (IF Len(revenues) >= 3 /\ \A i \in DOMAIN revenues : revenues[i] > 0
           THEN {Division("revenue_change", revenues[i], revenues[i + 1]) :
                    i \in 1..(Len(revenues) - 1)}
                   \cup {Division("revenue_volatility", Computed, Len(revenues) - 1)}
           ELSE {})

\* nancy_pelosi.py: buys / (buys + sells)
trading_divisions(ticker, insider_trades, company_news) ==
    LET trades == insider_trades.items
        buys == Len(SelectSeq(trades, LAMBDA trade : trade.transaction_shares > 0))
        sells == Len(SelectSeq(trades, LAMBDA trade : trade.transaction_shares < 0))
    IN  IF ~Falsy(insider_trades) /\ Len(trades) > 5 /\ buys + sells > 0
        THEN {Division("buy_ratio", buys, buys + sells)} ELSE {}

\* wsb_agent.py: the Reddit averages; the loop over company_news comes first and
\* raises on None
meme_divisions(company_news, ticker, market_cap, reddit_posts) ==
    IF company_news.none \/ Falsy(reddit_posts) THEN {}
    ELSE {Division("avg_engagement", Computed, Len(reddit_posts.items)),
          Division("sentiment_ratio",
                   Len(SelectSeq(reddit_posts.items, LAMBDA post : post.sentiment = "bullish")),
                   Len(reddit_posts.items))}

\* wsb_agent.py: cash / debt and market_cap / shares
squeeze_divisions(metrics, financial_line_items, market_cap, ticker) ==
    IF Falsy(metrics) \/ Falsy(financial_line_items) THEN {}
    ELSE
      LET latest == financial_line_items.items[1]
          cash == latest.cash_and_equivalents
          debt == latest.total_debt
          shares == latest.outstanding_shares
      IN  (IF Len(metrics.items) >= 2 /\ Truthy(cash) /\ Truthy(debt) /\ debt > 0
           THEN {Division("cash_to_debt", cash, debt)} ELSE {})
          \cup
          (IF Truthy(market_cap) /\ Truthy(shares)
           THEN {Division("avg_price", market_cap, shares)} ELSE {})

\* an options evaluator that computes its two ratios without looking at the operands
divides_unguarded(metrics, financial_line_items, market_cap) ==
    IF Falsy(metrics) \/ Falsy(financial_line_items) \/ ~Truthy(market_cap) THEN {}
    ELSE {Division("share_price", market_cap,
                   financial_line_items.items[1].outstanding_shares),
          Division("rd_to_revenue", financial_line_items.items[1].research_and_development,
                   financial_line_items.items[1].revenue)}

\* wsb_agent.py: market_cap / shares and R&D / revenue
options_divisions(metrics, financial_line_items, market_cap) ==
    IF Falsy(metrics) \/ Falsy(financial_line_items) \/ ~Truthy(market_cap) THEN {}
    ELSE
      LET latest == financial_line_items.items[1]
          shares == latest.outstanding_shares
          rd == latest.research_and_development
      IN  (IF Truthy(shares) /\ shares > 0
           THEN {Division("share_price", market_cap, shares)} ELSE {})
          \cup
          (IF Truthy(rd) /\ Truthy(latest.revenue)
           THEN {Division("rd_to_revenue", rd, latest.revenue)} ELSE {})

\* the divisions a call of an evaluator carries out
Divisions(inp) ==
    CASE inp.evaluator = "analyze_financial_strength" ->
            strength_divisions(inp.metrics, inp.financial_line_items)
      [] inp.evaluator = "analyze_valuation_graham" ->
            valuation_divisions(inp.metrics, inp.financial_line_items, inp.market_cap)
      [] inp.evaluator = "analyze_government_contracts" ->
            contracts_divisions(inp.financial_line_items, inp.company_news)
      [] inp.evaluator = "analyze_congressional_trading" ->
            trading_divisions(inp.ticker, inp.insider_trades, inp.company_news)
      [] inp.evaluator = "analyze_meme_potential" ->
            meme_divisions(inp.company_news, inp.ticker, inp.market_cap, inp.reddit_posts)
      [] inp.evaluator = "analyze_short_squeeze_potential" ->
            squeeze_divisions(inp.metrics, inp.financial_line_items, inp.market_cap,
                              inp.ticker)
      [] inp.evaluator = "analyze_options_potential" ->
            options_divisions(inp.metrics, inp.financial_line_items, inp.market_cap)
      [] OTHER -> {}

-----------------------------------------------------------------------------
(* The evaluators called on their own, with data: amounts that are null, negative,
   zero or positive *)

Amounts == {None, -100, 0, 100, 400}

ScoringCall(evaluator, ticker, metrics, items, market_cap, news, trades, posts) ==
    [agent |-> "evaluator", evaluator |-> evaluator, ticker |-> ticker,
     metrics |-> metrics, financial_line_items |-> items, company_news |-> news,
     insider_trades |-> trades, reddit_posts |-> posts, market_cap |-> market_cap]

\* line items of annual periods, the newest first, with these EPS values
EpsItems(eps) ==
    List([i \in DOMAIN eps |->
            [earnings_per_share |-> eps[i], book_value_per_share |-> None,
             current_assets |-> None, current_liabilities |-> None,
             total_assets |-> None, total_liabilities |-> None,
             dividends_and_other_cash_distributions |-> None,
             outstanding_shares |-> None]])

EarningsCalls ==
    {ScoringCall("analyze_earnings_stability", "AAPL", SomeMetrics(20, 1), EpsItems(eps), None,
                 List(<<>>), List(<<>>), List(<<>>)) :
        eps \in UNION {[1..n -> {None, -1, 1, 2}] : n \in 0..(MaxPeriods + 1)}}

StrengthCalls ==
    {ScoringCall("analyze_financial_strength", "AAPL", SomeMetrics(20, 1),
                 List(<<[earnings_per_share |-> 1, book_value_per_share |-> None,
                         current_assets |-> ca, current_liabilities |-> cl,
                         total_assets |-> ta, total_liabilities |-> tl,
                         dividends_and_other_cash_distributions |-> None,
                         outstanding_shares |-> None]>>),
                 None, List(<<>>), List(<<>>), List(<<>>)) :
        ca \in Amounts, cl \in Amounts, ta \in Amounts, tl \in Amounts}

ValuationCalls ==
    {ScoringCall("analyze_valuation_graham", "AAPL", SomeMetrics(20, 1),
                 List(<<[earnings_per_share |-> eps, book_value_per_share |-> 10,
                         current_assets |-> ca, current_liabilities |-> None,
                         total_assets |-> None, total_liabilities |-> 100,
                         dividends_and_other_cash_distributions |-> None,
                         outstanding_shares |-> shares]>>),
                 market_cap, List(<<>>), List(<<>>), List(<<>>)) :
        eps \in {None, 0, 2}, ca \in {None, 0, 400}, shares \in {None, -10, 0, 10},
        market_cap \in Amounts}

ContractsCalls ==
    {ScoringCall("analyze_government_contracts", "AAPL", SomeMetrics(20, 1),
                 List(<<[revenue |-> r1, total_assets |-> ta,
                         goodwill_and_intangible_assets |-> goodwill],
                        [revenue |-> r2, total_assets |-> None,
                         goodwill_and_intangible_assets |-> None],
                        [revenue |-> 100, total_assets |-> None,
                         goodwill_and_intangible_assets |-> None]>>),
                 1000, List(<<>>), List(<<>>), List(<<>>)) :
        r1 \in Amounts, r2 \in Amounts, ta \in Amounts, goodwill \in Amounts}

TradingCalls ==
    {ScoringCall("analyze_congressional_trading", "AAPL", SomeMetrics(20, 1), List(<<>>), 1000,
                 List(<<>>), trades, List(<<>>)) :
        trades \in {NoneList}
                     \cup {List(Repeat([transaction_shares |-> s, transaction_date |-> 5], n)) :
                             s \in {-100, 0, 100}, n \in 0..(MaxTrades + 1)}}

MemeCalls ==
    {ScoringCall("analyze_meme_potential", "GME", SomeMetrics(20, 1), List(<<>>), market_cap,
                 news, List(<<>>), posts) :
        market_cap \in Amounts, news \in NoData, posts \in RedditPosts \cup {NoneList}}

WSBItem(cash, debt, shares, rd, revenue) ==
    [revenue |-> revenue, net_income |-> -5, outstanding_shares |-> shares,
     cash_and_equivalents |-> cash, total_debt |-> debt, research_and_development |-> rd]

SqueezeCalls ==
    {ScoringCall("analyze_short_squeeze_potential", "GME", SomeMetrics(120, 2),
                 List(<<WSBItem(cash, debt, shares, None, 100)>>), market_cap,
                 List(<<>>), List(<<>>), List(<<>>)) :
        cash \in {None, 0, 100}, debt \in Amounts, shares \in Amounts,
        market_cap \in {None, 0, 400}}

OptionsCalls ==
    {ScoringCall("analyze_options_potential", "GME", SomeMetrics(120, 2),
                 List(<<WSBItem(10, 100, shares, rd, revenue)>>), market_cap,
                 List(<<>>), List(<<>>), List(<<>>)) :
        shares \in Amounts, rd \in {None, 0, 100}, revenue \in Amounts,
        market_cap \in {None, 0, 400}}

InitScoring ==
    /\ pc = "call"
    /\ agent_input \in EarningsCalls \cup StrengthCalls \cup ValuationCalls \cup ContractsCalls
                         \cup TradingCalls \cup MemeCalls \cup SqueezeCalls \cup OptionsCalls
    /\ agent_result = NoResult
    /\ selected_analysts = NoSelection
    /\ workflow = NoWorkflow
    /\ executed = NothingExecuted
    /\ ticker_signals = <<>>
    /\ fa_env = NoEnv
    /\ fa_run = NoRun
    /\ final_analysis = NoVerdict
    /\ IdleRoundTable
    /\ analyst_signals = NoSignals
    /\ IdleTools

\* what the call returns, together with the divisions it carried out
Scored(inp) ==
    LET result == Evaluate(inp) IN
    [raised |-> result.raised, score |-> result.score, details |-> result.details,
     divisions |-> Divisions(inp)]

ScoreGraham ==
    /\ pc = "call"
    /\ agent_input.evaluator \in graham_evaluators
    /\ agent_result' = Scored(agent_input)
    /\ pc' = "returned"
    /\ UNCHANGED <<selected_analysts, workflow, executed, agent_input, round_table_vars,
                   analyst_signals, tool_vars>>

ScorePelosi ==
    /\ pc = "call"
    /\ agent_input.evaluator \in pelosi_evaluators
    /\ agent_result' = Scored(agent_input)
    /\ pc' = "returned"
    /\ UNCHANGED <<selected_analysts, workflow, executed, agent_input, round_table_vars,
                   analyst_signals, tool_vars>>

ScoreWSB ==
    /\ pc = "call"
    /\ agent_input.evaluator \in wsb_evaluators
    /\ agent_result' = Scored(agent_input)
    /\ pc' = "returned"
    /\ UNCHANGED <<selected_analysts, workflow, executed, agent_input, round_table_vars,
                   analyst_signals, tool_vars>>

NextScoring ==
    \/ ScoreGraham
    \/ ScorePelosi
    \/ ScoreWSB

SpecScoring == InitScoring /\ [][NextScoring]_vars
-----------------------------------------------------------------------------
(* The log sockets of the web server (src/webui2.py): the request thread that runs
   broadcast_log and the threads of the logs handlers, one per socket, interleaved *)

\* list.remove(x): the list without the first x
Remove(list, x) ==
    LET first == CHOOSE i \in DOMAIN list : list[i] = x /\ \A j \in 1..(i - 1) : list[j] # x
    IN  SubSeq(list, 1, first - 1) \o SubSeq(list, first + 1, Len(list))

InitWeb ==
    /\ pc = "serving"
    /\ IdleWeb
    /\ tool_input = NoCall
    /\ tool_result = NoReturn
    /\ ticker_signals = <<>>
    /\ fa_env = NoEnv
    /\ fa_run = NoRun
    /\ final_analysis = NoVerdict
    /\ IdleRoundTable
    /\ IdlePipeline

\* logs(ws): websocket_clients.append(ws), then the receive loop
Connect ==
    /\ \E c \in Clients :
          /\ handlers[c] = "idle"
          /\ websocket_clients' = Append(websocket_clients, c)
          /\ handlers' = [handlers EXCEPT ![c] = "receiving"]
    /\ UNCHANGED <<pc, disconnected, broadcast, tool_input, tool_result, round_table_vars,
                   pipeline_vars>>

\* the client of a socket goes away
Disconnect ==
    /\ \E c \in Clients :
          /\ handlers[c] = "receiving"
          /\ c \notin disconnected
          /\ disconnected' = disconnected \cup {c}
    /\ UNCHANGED <<pc, websocket_clients, handlers, broadcast, tool_input, tool_result,
                   round_table_vars, pipeline_vars>>

\* logs(ws): ws.receive() raises, the handler enters its except block
ReceiveRaises ==
    /\ \E c \in Clients :
          /\ handlers[c] = "receiving"
          /\ c \in disconnected
          /\ handlers' = [handlers EXCEPT ![c] = "cleanup"]
    /\ UNCHANGED <<pc, websocket_clients, disconnected, broadcast, tool_input, tool_result,
                   round_table_vars, pipeline_vars>>

\* logs(ws): websocket_clients.remove(ws) in the except block; ValueError when the
\* socket is not in the list
HandlerRemoves ==
    /\ \E c \in Clients :
          /\ handlers[c] = "cleanup"
          /\ IF c \in Range(websocket_clients)
             THEN /\ websocket_clients' = Remove(websocket_clients, c)
                  /\ handlers' = [handlers EXCEPT ![c] = "done"]
             ELSE /\ handlers' = [handlers EXCEPT ![c] = "raised"]
                  /\ UNCHANGED websocket_clients
    /\ UNCHANGED <<pc, disconnected, broadcast, tool_input, tool_result, round_table_vars,
                   pipeline_vars>>

\* run_analysis calls broadcast_log: the loop runs over a copy of the list
StartBroadcast ==
    /\ broadcast.pc = "idle"
    /\ broadcast.calls < MaxBroadcasts
    /\ broadcast' = [broadcast EXCEPT !.pc = "sending", !.copy = websocket_clients,
                                      !.i = 1, !.calls = @ + 1]
    /\ UNCHANGED <<pc, websocket_clients, disconnected, handlers, tool_input, tool_result,
                   round_table_vars, pipeline_vars>>

\* client.send(...): it returns, or raises on a socket whose client has gone
Send ==
    /\ broadcast.pc = "sending"
    /\ broadcast.i <= Len(broadcast.copy)
    /\ \/ broadcast' = [broadcast EXCEPT !.i = @ + 1]
       \/ /\ broadcast.copy[broadcast.i] \in disconnected
          /\ broadcast' = [broadcast EXCEPT !.pc = "removing"]
    /\ UNCHANGED <<pc, websocket_clients, disconnected, handlers, tool_input, tool_result,
                   round_table_vars, pipeline_vars>>

\* websocket_clients.remove(client) in the except block of broadcast_log; ValueError
\* when the socket is not in the list any more
BroadcastRemoves ==
    /\ broadcast.pc = "removing"
    /\ IF broadcast.copy[broadcast.i] \in Range(websocket_clients)
       THEN /\ websocket_clients' = Remove(websocket_clients, broadcast.copy[broadcast.i])
            /\ broadcast' = [broadcast EXCEPT !.pc = "sending", !.i = @ + 1]
       ELSE /\ broadcast' = [broadcast EXCEPT !.pc = "idle", !.raised = TRUE]
            /\ UNCHANGED websocket_clients
    /\ UNCHANGED <<pc, disconnected, handlers, tool_input, tool_result, round_table_vars,
                   pipeline_vars>>

\* the loop of broadcast_log is over
EndBroadcast ==
    /\ broadcast.pc = "sending"
    /\ broadcast.i > Len(broadcast.copy)
    /\ broadcast' = [broadcast EXCEPT !.pc = "idle"]
    /\ UNCHANGED <<pc, websocket_clients, disconnected, handlers, tool_input, tool_result,
                   round_table_vars, pipeline_vars>>

NextWeb ==
    \/ Connect
    \/ Disconnect
    \/ ReceiveRaises
    \/ HandlerRemoves
    \/ StartBroadcast
    \/ Send
    \/ BroadcastRemoves
    \/ EndBroadcast

SpecWeb == InitWeb /\ [][NextWeb]_vars

-----------------------------------------------------------------------------
(* Properties of simulate_round_table (Spec) *)

\* all six fields of a verdict hold a value of the required type
Populated(v) ==
    /\ v.signal \in Signals
    /\ v.confidence.den > 0
    /\ \A k \in TextKeys : v[k] \notin {Null, Missing}

\* C1: for every signal map with at least one entry and whatever the LLM calls do,
\* simulate_round_table ends in DONE, never by raising, and the RoundTableOutput it
\* returns has its seven fields populated and a signal among bullish, bearish, neutral
C1_AlwaysDoneWellFormed ==
    /\ pc # "raised"
    /\ pc = "done" =>
          /\ Populated(output)
          /\ output.conversation_transcript = full_transcript
          /\ Len(output.conversation_transcript) > 0

\* the phase an utterance belongs to, in the order of the phases
PhaseRank(u) ==
    CASE u.phase = "intro" -> 0
      [] u.phase = "opening" -> 1
      [] u.phase \in {"question", "answer", "blank"} -> 2
      [] u.phase \in {"debate_intro", "argument", "counter"} -> 3
      [] u.phase \in {"synthesis_intro", "synthesis"} -> 4
      [] u.phase = "conclusion" -> 5

HowMany(t, phase) == Cardinality({i \in DOMAIN t : t[i].phase = phase})

\* s is t with some elements left out
RECURSIVE IsSubsequence(_, _)
IsSubsequence(s, t) ==
    IF s = <<>> THEN TRUE
    ELSE IF t = <<>> THEN FALSE
    ELSE IF Head(s) = Head(t) THEN IsSubsequence(Tail(s), Tail(t))
    ELSE IsSubsequence(s, Tail(t))

\* everything said so far: the transcript and the turns still to be joined to it
SaidSoFar ==
    IF pc \in {"questioning", "debate", "synthesis", "join"}
    THEN full_transcript \o conversation_turns
    ELSE full_transcript

InPhaseOrder(t) ==
    /\ \A i, j \in DOMAIN t : i < j => PhaseRank(t[i]) <= PhaseRank(t[j])
    /\ HowMany(t, "intro") <= 1
    /\ HowMany(t, "debate_intro") <= 1
    /\ HowMany(t, "synthesis_intro") <= 1
    /\ HowMany(t, "conclusion") <= 1
    /\ HowMany(t, "question") <= 3
    /\ \A i \in DOMAIN t : t[i].phase = "debate_intro" =>
          \A j \in DOMAIN t : t[j].phase \in {"argument", "counter"} => i < j
    /\ \A i \in DOMAIN t : t[i].phase = "synthesis_intro" =>
          \A j \in DOMAIN t : t[j].phase = "synthesis" => i < j
    /\ LET openings == SelectSeq(t, LAMBDA u : u.phase = "opening")
       IN  IsSubsequence([i \in DOMAIN openings |-> openings[i].speaker], analysts)

\* C2: the utterances of a ticker's transcript are in phase order: the moderator's
\* introduction first, then the openings in persona order, the questioning, the
\* debate, the synthesis, and the moderator's conclusion last; no phase runs twice
C2_PhaseOrder ==
    /\ pc # "start" => InPhaseOrder(SaidSoFar) /\ SaidSoFar[1].phase = "intro"
    /\ pc \in {"final", "construct", "done", "raised"} =>
          full_transcript[Len(full_transcript)].phase = "conclusion"
    /\ pc = "done" => output.conversation_transcript = full_transcript

\* a returned transcript in which every phase has spoken
C2_Witness ==
    /\ pc = "done"
    /\ HowMany(output.conversation_transcript, "opening") = 2
    /\ HowMany(output.conversation_transcript, "question") = 2
    /\ HowMany(output.conversation_transcript, "argument") = 2
    /\ HowMany(output.conversation_transcript, "synthesis") = 2
    /\ HowMany(output.conversation_transcript, "conclusion") = 1

\* C3: the transcript is append-only: in every step of simulate_round_table,
\* failure paths included, the transcript before is a prefix of the transcript after
C3_AppendOnly == [][IsPrefix(full_transcript, full_transcript')]_vars

\* the transcript has grown through the moderator's conclusion after a call raised
C3_Witness ==
    /\ pc = "final"
    /\ faults > 0
    /\ Len(full_transcript) >= 4
    /\ full_transcript[Len(full_transcript)].src = "generic"


-----------------------------------------------------------------------------
(* Properties of generate_final_analysis (SpecFinal) *)

\* the call has returned after the LLM answered
Answered == pc = "returned" /\ fa_env.setup = "ok" /\ fa_env.last = "ok"
                /\ fa_env.rate_limited < 5

\* C4: whenever the LLM answers, be it with fenced JSON, bare JSON, single-quoted
\* JSON or a text that cannot be parsed, the verdict has all six fields populated
C4_SixFieldsPopulated ==
    (Answered /\ fa_env.response.format \in {"fenced", "bare", "single", "garbage"})
        => Populated(final_analysis)

\* every attempt the call makes is answered with a rate-limit error
AlwaysRateLimited == pc = "returned" /\ fa_env.setup = "ok" /\ fa_env.rate_limited >= 5

\* C7 as stated: a rate-limited call is retried up to 5 times, the successive waits
\* being 2, 4, 8, 16 and 32 seconds
C7_FiveRetries ==
    /\ pc = "returned" /\ fa_env.setup = "ok" =>
          /\ IsPrefix(fa_run.waits, <<2, 4, 8, 16, 32>>)
          /\ Len(fa_run.waits) = Min(fa_env.rate_limited, 5)
    /\ AlwaysRateLimited => fa_run.waits = <<2, 4, 8, 16, 32>>

\* C7: a rate-limited call is retried up to 4 times, 5 invocations in all, the
\* successive waits being 2, 4, 8 and 16 seconds: each rate-limit error but the
\* fifth is followed by one wait and one more invocation
C7_FourRetries ==
    pc = "returned" /\ fa_env.setup = "ok" =>
        /\ IsPrefix(fa_run.waits, <<2, 4, 8, 16>>)
        /\ Len(fa_run.waits) = Min(fa_env.rate_limited, 4)
        /\ fa_run.calls = Len(fa_run.waits) + 1
        /\ fa_run.calls <= 5

\* all five invocations were rate-limited: four waits, none of 32 seconds
C7_Witness ==
    /\ AlwaysRateLimited
    /\ fa_run.calls = 5
    /\ fa_run.waits = <<2, 4, 8, 16>>

\* C8: an error other than a rate-limit error ends the invocations at once (on the
\* first attempt: exactly one invocation), and so does the exhaustion of the retries;
\* in both cases the verdict is the signal-vote fallback of the ticker's signals and
\* no parsing strategy is run
C8_NoRetryOnOtherErrors ==
    /\ (pc = "returned" /\ fa_env.setup = "ok" /\ fa_env.last = "error"
            /\ fa_env.rate_limited < 5) =>
          /\ fa_run.calls = fa_env.rate_limited + 1
          /\ fa_env.rate_limited = 0 => fa_run.calls = 1 /\ fa_run.waits = <<>>
          /\ final_analysis = generate_fallback_analysis(ticker_signals)
          /\ fa_run.source = "fallback"
          /\ fa_run.approach = 0
    /\ AlwaysRateLimited =>
          /\ final_analysis = generate_fallback_analysis(ticker_signals)
          /\ fa_run.source = "fallback"
          /\ fa_run.approach = 0

\* the first invocation raised an error that is no rate-limit error
C8_Witness ==
    /\ pc = "returned"
    /\ fa_env.setup = "ok" /\ fa_env.last = "error" /\ fa_env.rate_limited = 0
    /\ fa_run.calls = 1
    /\ fa_run.approach = 0
    /\ final_analysis.signal = "bearish"
    /\ final_analysis.confidence = Frac(90, 1)

\* the LLM answered with a text from which nothing can be extracted
Unparsable == Answered /\ fa_env.response.format = "garbage"

\* C9 as stated: when the answer cannot be parsed by any strategy, the verdict is
\* the signal-vote fallback of the ticker's signals
C9_UnparsableGivesFallback ==
    Unparsable => final_analysis = generate_fallback_analysis(ticker_signals)

\* C9: when the answer cannot be parsed by any strategy, the verdict is the fixed
\* default analysis (neutral, confidence 50.0, the four default texts), whatever the
\* ticker's signals
C9_UnparsableGivesDefault ==
    Unparsable =>
        /\ final_analysis.signal = "neutral"
        /\ final_analysis.confidence = Frac(50, 1)
        /\ final_analysis = default_analysis
        /\ fa_run.source = "default"
        /\ fa_run.approach = 3

\* an unparsable answer for a ticker whose signals are all bullish
C9_Witness ==
    /\ Unparsable
    /\ \A i \in DOMAIN ticker_signals : ticker_signals[i].signal = "bullish"
    /\ generate_fallback_analysis(ticker_signals).signal = "bullish"
    /\ final_analysis.signal = "neutral"

\* the answer was parsed into an object by the first or the second strategy
ParsedObject == Answered /\ fa_env.response.format \in {"fenced", "bare", "single"}

\* the verdict's fields that were repaired take their values from the analysis repair
Repaired(repair) ==
    LET json == fa_env.response.json IN
    /\ final_analysis.signal =
          IF json.signal \in Signals THEN json.signal ELSE repair.signal
    /\ final_analysis.confidence =
          IF json.confidence.kind = "number" THEN json.confidence.val ELSE repair.confidence
    /\ \A k \in TextKeys :
          final_analysis[k] = IF json[k] = Missing THEN repair[k] ELSE json[k]

\* C10 as stated: a missing field, a signal outside bullish, bearish, neutral and a
\* confidence that is no number are each replaced by the corresponding value of the
\* signal-vote fallback
C10_RepairedFromFallback ==
    ParsedObject => Repaired(generate_fallback_analysis(ticker_signals))

\* C10: a missing field, a signal outside bullish, bearish, neutral and a
\* confidence that is no number are each replaced by the corresponding value of the
\* fixed default analysis (neutral, 50.0, the default texts); the other fields are
\* kept as the answer gives them
C10_RepairedFromDefault ==
    ParsedObject =>
        Repaired([ signal |-> "neutral",
                   confidence |-> Frac(50, 1),
                   reasoning |-> "Balanced mix of positive and negative factors",
                   discussion_summary |-> "The discussion covered various aspects",
                   consensus_view |-> "No strong consensus emerged",
                   dissenting_opinions |-> "Various perspectives were presented" ])

\* an answer with the signal "hold" for a ticker whose signals are all bearish
C10_Witness ==
    /\ ParsedObject
    /\ fa_env.response.json.signal = "hold"
    /\ \A i \in DOMAIN ticker_signals : ticker_signals[i].signal = "bearish"
    /\ final_analysis.signal = "neutral"
    /\ final_analysis.confidence = Frac(75, 1)

-----------------------------------------------------------------------------
(* Properties of generate_fallback_analysis (SpecFallback) *)

\* the entries of the signal map that vote for s
VotesFor(s) == {i \in DOMAIN ticker_signals : ticker_signals[i].signal = s}

RECURSIVE SumOver(_)
SumOver(votes) ==
    IF votes = {} THEN 0
    ELSE LET i == CHOOSE j \in votes : TRUE
         IN  ticker_signals[i].confidence + SumOver(votes \ {i})

\* x is the mean confidence of the votes for s
IsMeanOf(x, s) == x.num * Cardinality(VotesFor(s)) = x.den * SumOver(VotesFor(s))

\* the mean confidence of s is below that of t
MeanBelow(s, t) ==
    SumOver(VotesFor(s)) * Cardinality(VotesFor(t))
        < SumOver(VotesFor(t)) * Cardinality(VotesFor(s))

\* the buckets with the most votes
MostVoted ==
    {s \in Signals : \A t \in Signals : Cardinality(VotesFor(t)) <= Cardinality(VotesFor(s))}

\* C5: the fallback's signal is a bucket with the most votes, and its confidence is
\* the arithmetic mean of the confidences of the signals in that bucket
C5_MajorityAndMean ==
    pc = "returned" =>
        /\ final_analysis.signal \in MostVoted
        /\ IsMeanOf(final_analysis.confidence, final_analysis.signal)
        /\ final_analysis.confidence.den > 0

\* A bullish/80, B bullish/60, C bearish/90 give bullish with confidence 70
C5_Witness ==
    /\ pc = "returned"
    /\ Len(ticker_signals) = 3
    /\ [i \in 1..3 |-> ticker_signals[i].signal] = <<"bullish", "bullish", "bearish">>
    /\ [i \in 1..3 |-> ticker_signals[i].confidence] = <<80, 60, 90>>
    /\ final_analysis.signal = "bullish"
    /\ final_analysis.confidence = Frac(70, 1)

\* the position of a bucket in the fixed order bullish, bearish, neutral
OrderOf(s) == CHOOSE i \in 1..3 : Buckets[i] = s

\* C6: when several buckets tie for the most votes, the tied bucket with the highest
\* average confidence wins, and among tied buckets of equal highest average the
\* first in the order bullish, bearish, neutral wins
C6_TieBreak ==
    (pc = "returned" /\ Cardinality(MostVoted) > 1) =>
        /\ final_analysis.signal \in MostVoted
        /\ \A t \in MostVoted : ~MeanBelow(final_analysis.signal, t)
        /\ \A t \in MostVoted :
              (~MeanBelow(t, final_analysis.signal) /\ t # final_analysis.signal)
                  => OrderOf(final_analysis.signal) < OrderOf(t)

\* bearish/90 entered before bullish/90: bullish wins by the order of the buckets
C6_Witness ==
    /\ pc = "returned"
    /\ Len(ticker_signals) = 2
    /\ [i \in 1..2 |-> ticker_signals[i].signal] = <<"bearish", "bullish">>
    /\ [i \in 1..2 |-> ticker_signals[i].confidence] = <<90, 90>>
    /\ final_analysis.signal = "bullish"
    /\ final_analysis.confidence = Frac(90, 1)


-----------------------------------------------------------------------------
(* Properties of select_primary_debaters (SpecDebaters) *)

\* every key of the signal map is the identifier an analyst wrapper writes
WrapperKeys == \A i \in DOMAIN ticker_signals : ticker_signals[i].agent \in DOMAIN persona_definitions

\* the present personas of one category with their confidences, in the map's order
PresentIn(category) ==
    LET es == SelectSeq(ticker_signals, LAMBDA e :
                  e.agent \in DOMAIN persona_definitions /\ e.signal = category)
    IN  [i \in DOMAIN es |-> [name |-> persona_definitions[es[i].agent],
                              confidence |-> es[i].confidence]]

\* the two highest confidences of a category first, highest first
TopTwo(category) ==
    LET es == PresentIn(category)
        Before(i, j) == es[i].confidence > es[j].confidence
                           \/ (es[i].confidence = es[j].confidence /\ i < j)
        RankOf(i) == 1 + Cardinality({j \in DOMAIN es : Before(j, i)})
        first == SelectSeq(es, LAMBDA e : \E i \in DOMAIN es : es[i] = e /\ RankOf(i) = 1)
        second == SelectSeq(es, LAMBDA e : \E i \in DOMAIN es : es[i] = e /\ RankOf(i) = 2)
    IN  [i \in DOMAIN (first \o second) |-> (first \o second)[i].name]

\* C19: for a signal map as the analyst wrappers produce it, the primary debaters
\* are, in the order bullish, bearish, neutral and without duplicates, the up to 2
\* present personas of highest confidence of each category
C19_TopTwoOfEachCategory ==
    (pc = "returned" /\ WrapperKeys) =>
        LET expected == TopTwo("bullish") \o TopTwo("bearish") \o TopTwo("neutral") IN
        /\ IsPrefix(expected, primary_debaters)
        /\ Len(expected) >= 4 => primary_debaters = expected

NoDuplicates(s) == \A i, j \in DOMAIN s : i # j => s[i] # s[j]

\* the per-category selection leaves slots and personas to fill them with
SlotsToFill ==
    /\ pc = "returned"
    /\ Len(TopOfCategories(ticker_signals, analysts)) < 4
    /\ \E i \in DOMAIN analysts : analysts[i] \notin Range(TopOfCategories(ticker_signals, analysts))

\* C20 as stated: whenever the per-category selection yields fewer than 4 debaters
\* and present personas remain unselected, the slots are filled up to 4, so there
\* are min(4, number of present personas) primary debaters, also with 3 or fewer
C20_FilledUpToFour ==
    SlotsToFill => Len(primary_debaters) = Min(4, Len(analysts))

\* C20: the slots are filled only when at least 4 personas are present, and then
\* there are exactly 4 primary debaters, the unused personas following the selected
\* ones in persona order; with 3 or fewer personas present nothing is filled and the
\* per-category selection is returned as it is
C20_FilledOnlyFromFour ==
    SlotsToFill =>
        LET top == TopOfCategories(ticker_signals, analysts)
            unused == SelectSeq(analysts, LAMBDA a : a \notin Range(top))
        IN  /\ Len(analysts) >= 4 =>
                  primary_debaters = top \o SubSeq(unused, 1, 4 - Len(top))
            /\ Len(analysts) >= 4 => Len(primary_debaters) = 4
            /\ Len(analysts) < 4 => primary_debaters = top
            /\ NoDuplicates(primary_debaters)

\* three personas present, one selected by category, two left out and not filled in
C20_Witness ==
    /\ SlotsToFill
    /\ Len(analysts) = 3
    /\ Len(primary_debaters) = 1

-----------------------------------------------------------------------------
(* Properties of the workflow graph (SpecWorkflow, SpecWorkflowLive) *)

Occurrences(s, x) == Cardinality({i \in DOMAIN s : s[i] = x})

\* risk aggregation ran once, then portfolio decision ran once and last
RiskThenPortfolio ==
    /\ Occurrences(executed.done, "risk_management_agent") = 1
    /\ Occurrences(executed.done, "portfolio_management_agent") = 1
    /\ \A i \in DOMAIN executed.done : Occurrences(executed.done, executed.done[i]) = 1
    /\ Len(executed.done) >= 2
    /\ executed.done[Len(executed.done) - 1] = "risk_management_agent"
    /\ executed.done[Len(executed.done)] = "portfolio_management_agent"

\* C12: for every list of selected persona identifiers, the empty list and a list
\* of only unknown identifiers included, the single execution of the workflow
\* eventually runs risk aggregation, then portfolio decision, and reaches the
\* terminal node, no node running twice
C12_EventuallyDecides == <>(pc = "returned" /\ RiskThenPortfolio)

AnalystNodesOf(g) ==
    g.nodes \ {"start_node", "risk_management_agent", "portfolio_management_agent"}

\* C13: built from an empty selected list, the graph has one node per persona of
\* the registry
C13_EmptySelectsAll ==
    (pc = "built" /\ selected_analysts.given /\ selected_analysts.keys = <<>>) =>
        AnalystNodesOf(workflow) = {get_analyst_nodes[k] : k \in DOMAIN get_analyst_nodes}

\* no identifier of the registry is selected twice
SelectedOnce ==
    \A i, j \in DOMAIN selected_analysts.keys :
        (i # j /\ selected_analysts.keys[i] = selected_analysts.keys[j])
            => selected_analysts.keys[i] \notin DOMAIN get_analyst_nodes

\* C14: identifiers that are not in the registry are skipped and never end the
\* construction; the graph has a node, with its edges from the start node and to
\* risk aggregation, for exactly the selected identifiers that are in the registry
C14_UnknownSkipped ==
    LET wanted == {get_analyst_nodes[k] :
                      k \in Range(SelectedKeys(selected_analysts)) \cap DOMAIN get_analyst_nodes}
    IN  /\ (pc = "exit" /\ workflow = NoWorkflow) => ~SelectedOnce
        /\ pc \in {"built", "compiled", "running", "returned"} =>
              /\ AnalystNodesOf(workflow) = wanted
              /\ \A n \in workflow.nodes :
                    /\ <<"start_node", n>> \in workflow.edges <=> n \in wanted
                    /\ <<n, "risk_management_agent">> \in workflow.edges <=> n \in wanted

\* a graph built from a selection with a known and an unknown identifier
C14_Witness ==
    /\ pc = "built"
    /\ selected_analysts.given
    /\ "unknown_analyst" \in Range(selected_analysts.keys)
    /\ "wsb" \in Range(selected_analysts.keys)
    /\ AnalystNodesOf(workflow) = {"wsb_agent"}

-----------------------------------------------------------------------------
(* Properties of the evaluators (SpecEvaluators) *)

\* C15: every evaluator of the three personas, given None or empty collections,
\* returns score 0 with non-empty details and raises nothing, for every ticker
C15_NoDataScoresZero ==
    pc = "returned" =>
        /\ ~agent_result.raised
        /\ agent_result.score = 0
        /\ agent_result.details # ""

-----------------------------------------------------------------------------
(* Properties of the analyst wrappers (SpecAgents) *)

\* C11: whatever the providers return (empty collections, unset fields, insider
\* trades dated before news items), no wrapper lets an exception out; it ends with
\* a signal for the ticker
C11_NoExceptionLeavesWrapper ==
    agent_result # NoResult =>
        /\ ~agent_result.raised
        /\ agent_result.signal \in Signals

C17_PelosiScoreWithinTen ==
    (pc = "returned" /\ agent_result.agent = "nancy_pelosi_agent") =>
        /\ agent_result.score >= 0
        /\ agent_result.score <= 20 * 10

-----------------------------------------------------------------------------
(* Properties of the score-to-signal mapping (SpecSignal) *)

SignalRank(signal) == CASE signal = "bearish" -> 0 [] signal = "neutral" -> 1 [] signal = "bullish" -> 2

\* the score is at least num / den of the persona's maximum
AtLeastShare(score, max, num, den) == score * den >= 20 * max * num
\* the score is at most num / den of the persona's maximum
AtMostShare(score, max, num, den) == score * den <= 20 * max * num

\* the thresholds of the three personas: bullish from, bearish up to
BullishFrom(agent, score) ==
    CASE agent = "ben_graham_agent" -> AtLeastShare(score, 15, 7, 10)
      [] agent = "nancy_pelosi_agent" -> AtLeastShare(score, 10, 65, 100)
      [] agent = "wsb_agent" -> AtLeastShare(score, 15, 6, 10)

BearishUpTo(agent, score) ==
    CASE agent = "ben_graham_agent" -> AtMostShare(score, 15, 3, 10)
      [] agent = "nancy_pelosi_agent" -> AtMostShare(score, 10, 35, 100)
      [] agent = "wsb_agent" -> AtMostShare(score, 15, 3, 10)

\* C18: for each persona the mapping from the aggregate score to the signal is
\* monotonic, bullish from the persona's upper threshold and bearish up to its lower
\* one (Graham 0.7 and 0.3 of 15, Pelosi 0.65 and 0.35 of 10, WSB 0.6 and 0.3 of 15),
\* and no score is both bullish and bearish
C18_SignalMonotonic ==
    pc = "returned" =>
        /\ SignalRank(agent_result.low) <= SignalRank(agent_result.high)
        /\ \A side \in {"low", "high"} :
              /\ agent_result[side] = "bullish" <=> BullishFrom(agent_input.agent, agent_input[side])
              /\ agent_result[side] = "bearish" <=> BearishUpTo(agent_input.agent, agent_input[side])
              /\ ~(BullishFrom(agent_input.agent, agent_input[side])
                     /\ BearishUpTo(agent_input.agent, agent_input[side]))

\* a bearish score and a bullish score of one persona, both on their thresholds
C18_Witness ==
    /\ pc = "returned"
    /\ agent_input.agent = "nancy_pelosi_agent"
    /\ agent_input.low = 70
    /\ agent_input.high = 130
    /\ agent_result.low = "bearish"
    /\ agent_result.high = "bullish"

-----------------------------------------------------------------------------
(* Properties of the phases of simulate_round_table (Spec) *)

\* the speakers of the utterances of one phase, in the order they were made
SpeakersOf(t, phase) ==
    LET us == SelectSeq(t, LAMBDA u : u.phase = phase)
    IN  [i \in DOMAIN us |-> us[i].speaker]

\* C21: for a signal map keyed by the identifiers the analyst wrappers write, the
\* opening phase appends one opening statement per present persona, in persona
\* order, leaving out only the personas whose statement failed
C21_OneOpeningPerPersona ==
    (pc = "questioning" /\ WrapperKeys) =>
        /\ IsSubsequence(SpeakersOf(full_transcript, "opening"), analysts)
        /\ NoDuplicates(SpeakersOf(full_transcript, "opening"))
        /\ Len(SpeakersOf(full_transcript, "opening")) >= Len(analysts) - faults

\* the questioning has returned its exchanges to simulate_round_table
QuestionsReturned == pc = "debate" /\ questions # <<>>

\* C22 as stated: the questioners are min(3, number of present personas) distinct
\* personas drawn from all present personas
C22_QuestionersFromPresentPersonas ==
    (pc = "debate" /\ faults = 0 /\ Len(analysts) >= 2) =>
        /\ Len(SpeakersOf(questions, "question")) = Min(3, Len(analysts))
        /\ NoDuplicates(SpeakersOf(questions, "question"))
        /\ Range(SpeakersOf(questions, "question")) \subseteq Range(analysts)

\* C22: the questioners are min(3, number of primary debaters) distinct personas
\* drawn from the primary debaters; with fewer than 2 primary debaters no question
\* is asked
C22_QuestionersFromPrimaryDebaters ==
    /\ QuestionsReturned =>
          /\ Len(SpeakersOf(questions, "question")) = Min(3, Len(primary_debaters))
          /\ NoDuplicates(SpeakersOf(questions, "question"))
          /\ Range(SpeakersOf(questions, "question")) \subseteq Range(primary_debaters)
    /\ (pc = "debate" /\ Len(primary_debaters) < 2) => questions = <<>>
    /\ (pc = "debate" /\ faults = 0 /\ Len(primary_debaters) >= 2) => questions # <<>>

\* four personas present and four primary debaters, three of them ask
C22_Witness ==
    /\ QuestionsReturned
    /\ Len(analysts) = 4
    /\ Len(primary_debaters) = 4
    /\ Len(SpeakersOf(questions, "question")) = 3

\* C30: the questioning returns, for every questioner, its question immediately
\* followed by the answer of a different persona; a failed question call gives the
\* default question and the generic answer, a failed answer call the default
\* answer, and the pairs after a failed one are generated all the same
C30_QuestionThenAnswer ==
    QuestionsReturned =>
        /\ Len(questions) = 2 * Min(3, Len(primary_debaters))
        /\ \A i \in DOMAIN questions : i % 2 = 1 =>
              /\ questions[i].phase = "question"
              /\ questions[i + 1].phase = "answer"
              /\ questions[i + 1].speaker # questions[i].speaker
              /\ questions[i + 1].speaker \in Range(primary_debaters)
              /\ questions[i].src = "llm" => questions[i + 1].src \in {"llm", "default"}
              /\ questions[i].src = "default" => questions[i + 1].src = "generic"
              /\ questions[i].src \in {"llm", "default"}
        /\ conversation_turns = questions

\* the first pair's question call failed and all three pairs are there
C30_Witness ==
    /\ QuestionsReturned
    /\ faults = 1
    /\ Len(questions) = 6
    /\ questions[1].src = "default"
    /\ questions[2].src = "generic"
    /\ questions[5].src = "llm"
    /\ questions[6].src = "llm"

-----------------------------------------------------------------------------
(* Properties of the debate round (SpecTopics) *)

\* C28: identify_debate_topics returns between 1 and 3 topics for every response
\* of the LLM, and the three default topics when none can be extracted from it
C28_TopicsNeverEmpty ==
    (pc = "returned" /\ tool_result.fn = "identify_debate_topics") =>
        /\ Len(tool_result.topics) \in 1..3
        /\ ( /\ tool_input.response.form = "text"
             /\ extracted_topics(tool_input.response.lines) = <<>>
             /\ \A i \in DOMAIN tool_input.response.lines :
                   tool_input.response.lines[i].lead = "bracket" =>
                      \A j \in DOMAIN tool_input.response.lines[i].items :
                         tool_input.response.lines[i].items[j] = "" )
           => tool_result.topics = default_topics

\* C29: with at least 2 primary debaters the round is the moderator's line and,
\* for each of the first 2 topics, the first debater's argument and the second
\* debater's counter-argument, the LLM's or the fallback; with fewer than 2 it is
\* the moderator's line alone
C29_ExchangesPerTopic ==
    (pc \in {"returned", "raised"} /\ tool_result.fn = "generate_debate_exchanges") =>
        LET ex == tool_result.exchanges
            debaters == tool_input.primary_debaters
            n == Min(2, Len(tool_result.topics))
        IN  /\ ~tool_result.raised
            /\ ex[1] = Utterance("debate_intro", Moderator, "fixed")
            /\ Len(debaters) < 2 => Len(ex) = 1
            /\ Len(debaters) >= 2 =>
                  /\ Len(ex) = 1 + 2 * n
                  /\ \A t \in 1..n :
                        /\ ex[2 * t].phase = "argument"
                        /\ ex[2 * t].speaker = debaters[1]
                        /\ ex[2 * t].src \in CallSources
                        /\ ex[2 * t + 1].phase = "counter"
                        /\ ex[2 * t + 1].speaker = debaters[2]
                        /\ ex[2 * t + 1].src \in CallSources

-----------------------------------------------------------------------------
(* Properties of the signal map of a workflow run (SpecWorkflow, SpecReasoning) *)

\* the node that ran in the step
NodeThatRan == executed'.done[Len(executed'.done)]

\* C24: a step that changes analyst_signals is the run of an analyst wrapper that
\* adds the entry of its own key, which was not written before in the run, and
\* leaves the entries of all other keys as they are
C24_WritesOwnKeyOnce ==
    [][analyst_signals' # analyst_signals =>
          /\ Len(executed'.done) = Len(executed.done) + 1
          /\ NodeThatRan \in WrapperNodes
          /\ NodeThatRan \notin DOMAIN analyst_signals
          /\ DOMAIN analyst_signals' = DOMAIN analyst_signals \cup {NodeThatRan}
          /\ analyst_signals'[NodeThatRan] \in WrapperAnalyses
          /\ \A k \in DOMAIN analyst_signals : analyst_signals'[k] = analyst_signals[k]]_vars

\* three wrappers have run and each has its entry
C24_Witness ==
    /\ pc = "returned"
    /\ DOMAIN analyst_signals = WrapperNodes
    /\ Cardinality(WrapperNodes) = 3
    /\ \A k \in WrapperNodes : Occurrences(executed.done, k) = 1

\* C23: run on the same arguments and the same outcomes, run_round_table and the
\* analyst wrappers return the same value, or raise alike, and leave the same
\* signal map behind with show_reasoning set as without it
C23_ShowReasoningOnlyPrints ==
    (pc = "returned" /\ tool_result.fn \in WrapperNodes \cup {"run_round_table"}) =>
        /\ tool_result.shown.raised = tool_result.quiet.raised
        /\ tool_result.shown.value = tool_result.quiet.value
        /\ tool_result.shown.analyst_signals = tool_result.quiet.analyst_signals
        /\ tool_result.fn \in WrapperNodes =>
              /\ tool_result.quiet.analyst_signals[tool_result.fn] = tool_input.outcomes
              /\ tool_result.quiet.value[1].content = tool_input.outcomes

\* a wrapper has stored its analysis next to another agent's, showing its
\* reasoning in one run and nothing in the other
C23_Witness ==
    /\ pc = "returned"
    /\ tool_result.fn = "ben_graham_agent"
    /\ tool_result.shown.printed > tool_result.quiet.printed
    /\ DOMAIN tool_result.shown.analyst_signals = {"ben_graham_agent", "wsb_agent"}

-----------------------------------------------------------------------------
(* Properties of the data tools (SpecTools) *)

Formatted == pc = "returned" /\ tool_result.fn = "_format_ticker_for_yfinance"

HongKongDigits(ticker) ==
    IF endswith(lower(ticker), <<".", "h", "k">>)
    THEN SubSeq(ticker, 1, Len(ticker) - 3)
    ELSE ticker

\* C26: a ticker of 1 to 4 digits, with or without a .hk suffix in any letter
\* case, is formatted as the digits filled with zeros to 4 places followed by .HK
C26_HongKongPadded ==
    (Formatted /\ isdigit(HongKongDigits(tool_input.ticker))
               /\ Len(HongKongDigits(tool_input.ticker)) <= 4) =>
        /\ Len(tool_result.returned) = 7
        /\ SubSeq(tool_result.returned, 5, 7) = <<".", "H", "K">>
        /\ isdigit(SubSeq(tool_result.returned, 1, 4))
        /\ int(SubSeq(tool_result.returned, 1, 4)) = int(HongKongDigits(tool_input.ticker))

\* every source of prices the call may use has failed or has no data
EverySourceFails ==
    /\ tool_input.cache # "hit"
    /\ tool_input.is_crypto => tool_input.coincap # "prices"
    /\ ~tool_input.is_crypto =>
          /\ tool_input.yahoo # "prices"
          /\ tool_input.stockdata # "prices"
          /\ tool_input.alpha_vantage # "prices"

\* C27: get_prices returns a list for stock and crypto tickers whatever its sources
\* do, and the empty list when every source fails
C27_PricesAlwaysAList ==
    (pc = "returned" /\ tool_result.fn = "get_prices") =>
        /\ tool_result.returned.type = "list"
        /\ EverySourceFails => tool_result.returned.prices = <<>>

-----------------------------------------------------------------------------
(* Properties of the synthesis round (SpecTopics) *)

\* C31: the synthesis is the moderator's transition line followed by one final
\* position of each of the first min(3, number of primary debaters) primary
\* debaters, in their order, each the LLM's statement or that debater's fallback
C31_SynthesisOfFirstThree ==
    (pc = "returned" /\ tool_result.fn = "generate_synthesis") =>
        LET sy == tool_result.exchanges
            debaters == tool_input.primary_debaters
        IN  /\ Len(sy) = 1 + Min(3, Len(debaters))
            /\ sy[1] = Utterance("synthesis_intro", Moderator, "fixed")
            /\ \A i \in 1..Min(3, Len(debaters)) :
                  /\ sy[i + 1].phase = "synthesis"
                  /\ sy[i + 1].speaker = debaters[i]
                  /\ sy[i + 1].src \in CallSources

\* four primary debaters: the second one's call failed, the first and the third
\* have the LLM's statement, the fourth says nothing
C31_Witness ==
    /\ pc = "returned"
    /\ tool_result.fn = "generate_synthesis"
    /\ Len(tool_input.primary_debaters) = 4
    /\ Len(tool_result.exchanges) = 4
    /\ tool_result.exchanges[2].src = "llm"
    /\ tool_result.exchanges[3].src = "default"
    /\ tool_result.exchanges[4].src = "llm"

-----------------------------------------------------------------------------
(* Properties of the parsing of the final verdict (SpecFinal) *)

\* the call got a response from the LLM, so the parsing ran
GotResponse ==
    /\ pc = "returned"
    /\ fa_env.setup = "ok"
    /\ RetryLoop(fa_env, 0, <<>>).got = "response"

\* the verdict that the value json gives once validated
VerdictFrom(json) == ValidateAnalysis(ticker_signals, json)

\* C32: the parsing approaches are tried in the order fenced code block, brace-delimited
\* substring with its single quotes replaced, key-by-key extraction; the first one that
\* parses something decides the verdict and no later one is applied after it
C32_FirstApproachThatParsesDecides ==
    GotResponse =>
        LET r == fa_env.response
            block == CodeBlockJson(r)
            braces == BraceJson(r)
        IN  /\ block.found =>
                  /\ fa_run.approach = 1
                  /\ block.dict => fa_run.verdict = VerdictFrom(block.json)
            /\ (~block.found /\ braces.found) =>
                  /\ fa_run.approach = 2
                  /\ fa_run.verdict = VerdictFrom(braces.json)
            /\ (~block.found /\ ~braces.found) =>
                  /\ fa_run.approach = 3
                  /\ fa_run.verdict = VerdictFrom(KeyExtraction(ticker_signals, r).json)

\* a fenced block that parses although the braces inside it would parse as well, and
\* a response whose braces parse only because its single quotes were replaced
C32_Witness ==
    /\ GotResponse
    /\ \/ /\ fa_env.response.format = "fenced"
          /\ BraceJson(fa_env.response).found
          /\ fa_run.approach = 1
          /\ fa_run.source = "parsed"
       \/ /\ fa_env.response.format = "single"
          /\ fa_run.approach = 2

\* an invocation succeeded after one or more rate-limited ones
SucceededAfterRateLimits ==
    /\ pc = "returned"
    /\ fa_env.setup = "ok"
    /\ fa_env.last = "ok"
    /\ fa_env.rate_limited \in 1..(max_retries - 1)

\* C33: the LLM is invoked at most 5 times in a call; an invocation that succeeds
\* after one or more rate-limited ones is the last invocation, and the verdict is
\* what the parsing approaches and the validation make of its response, not the
\* signal-vote fallback
C33_SuccessEndsRetrying ==
    /\ (pc = "returned" /\ fa_run # NoRun) => fa_run.calls <= 5
    /\ SucceededAfterRateLimits =>
          /\ fa_run.calls = fa_env.rate_limited + 1
          /\ fa_run.approach \in 1..3
          /\ fa_run.source # "fallback"
          /\ fa_run.verdict =
                VerdictFrom(ParseResponse(ticker_signals, fa_env.response).json)

\* the part of C33 about the invocations alone
RetryingStopsAtSuccess ==
    /\ (pc = "returned" /\ fa_run # NoRun) => fa_run.calls <= 5
    /\ SucceededAfterRateLimits =>
          /\ fa_run.calls = fa_env.rate_limited + 1
          /\ fa_run.approach \in 1..3

-----------------------------------------------------------------------------
(* Properties of the confidence of the output (Spec) *)

InRange(x, low, high) == ~FracLess(x, Frac(low, 1)) /\ ~FracLess(Frac(high, 1), x)

\* C38: the confidence of the Round Table Output lies between 0 and 100, whichever
\* response the parsing accepted and whichever fallback was taken, the confidences
\* of the input signals lying between 0 and 100
C38_ConfidenceWithinRange ==
    pc = "done" => InRange(output.confidence, 0, 100)

\* the verdicts that do not come from a parsed response keep to the range
FallbacksWithinRange ==
    (pc = "returned" /\ fa_run # NoRun /\ fa_run.source # "parsed")
        => InRange(fa_run.verdict.confidence, 0, 100)

-----------------------------------------------------------------------------
(* Properties of the order of the nodes in a run (SpecWorkflow) *)

\* the position of node n among the nodes that have run, 0 when it has not run
PositionOf(n) ==
    IF \E i \in DOMAIN executed.done : executed.done[i] = n
    THEN CHOOSE i \in DOMAIN executed.done : executed.done[i] = n
    ELSE 0

HasRun(n) == PositionOf(n) > 0

\* the analyst nodes of the selection
SelectedPersonaNodes == SelectedNodes(SelectedKeys(selected_analysts))

\* the run has passed the edge into the terminal node
ReachedEnd ==
    \E i \in DOMAIN executed.done : <<executed.done[i], "END">> \in workflow.edges

\* C34: in a run no node runs twice; when risk aggregation runs, every selected
\* analyst node has run, once and before it, and has written its signals;
\* when portfolio decision runs, risk aggregation has run before it; the terminal
\* node is reached only after portfolio decision
C34_NodesRunInOrder ==
    pc \in {"running", "returned", "exit"} =>
        /\ \A n \in Range(executed.done) : Occurrences(executed.done, n) = 1
        /\ HasRun("risk_management_agent") =>
              \A n \in SelectedPersonaNodes :
                  /\ Occurrences(executed.done, n) = 1
                  /\ PositionOf(n) < PositionOf("risk_management_agent")
                  /\ n \in DOMAIN analyst_signals
        /\ HasRun("portfolio_management_agent") =>
              /\ HasRun("risk_management_agent")
              /\ PositionOf("risk_management_agent") < PositionOf("portfolio_management_agent")
        /\ ReachedEnd =>
              /\ HasRun("portfolio_management_agent")
              /\ executed.done[Len(executed.done)] = "portfolio_management_agent"
        /\ pc = "returned" /\ SelectedPersonaNodes # {} => ReachedEnd

\* a run of two analysts, then risk aggregation, then portfolio decision
C34_Witness ==
    /\ pc = "returned"
    /\ ReachedEnd
    /\ Cardinality(SelectedPersonaNodes) = 2
    /\ Len(executed.done) = 5
    /\ PositionOf("risk_management_agent") = 4
    /\ PositionOf("portfolio_management_agent") = 5

\* a Signal as a wrapper stores it
IsSignal(s) ==
    /\ DOMAIN s = {"signal", "confidence", "reasoning"}
    /\ s.signal \in Signals
    /\ s.confidence \in 0..100

\* C39: at every point of a run, an analyst key that is present in analyst_signals
\* holds a Signal for every ticker of the run: no entry is ever partly filled
C39_EntriesCoverEveryTicker ==
    \A k \in DOMAIN analyst_signals :
        /\ DOMAIN analyst_signals[k] = RunTickers
        /\ \A t \in RunTickers : IsSignal(analyst_signals[k][t])

\* one wrapper has stored its entry while another selected one has not run yet
C39_Witness ==
    /\ pc = "running"
    /\ "ben_graham_agent" \in DOMAIN analyst_signals
    /\ "wsb_agent" \in executed.due
    /\ "wsb_agent" \notin DOMAIN analyst_signals
    /\ analyst_signals["ben_graham_agent"]["GME"].signal = "neutral"

-----------------------------------------------------------------------------
(* Properties of run_round_table (SpecReasoning) *)

NotDebating == {"risk_management_agent", "round_table"}

\* the requested tickers for which an agent that takes part has a signal
TickersWithSignals ==
    LET stored == tool_input.data.analyst_signals IN
    { t \in Range(tool_input.data.tickers) :
        \E a \in DOMAIN stored \ NotDebating : t \in DOMAIN stored[a] }

\* what C35 says of a call that returns
RoundTableOfReturn(call) ==
    /\ DOMAIN call.value = TickersWithSignals
    /\ \A t \in DOMAIN call.debated :
          /\ DOMAIN call.debated[t] \cap NotDebating = {}
          /\ DOMAIN call.debated[t] # {}
    /\ DOMAIN tool_input.data.analyst_signals = {} => call.value = NoSignals

\* C35: run_round_table returns a mapping whose keys are exactly the requested
\* tickers for which an agent other than risk_management_agent and round_table has
\* a signal; the entries of those two take part in no discussion; a ticker without
\* signal is left out without error, and an empty analyst_signals gives an empty result
C35_ResultForTickersWithSignals ==
    (pc = "returned" /\ tool_result.fn = "run_round_table") =>
        /\ ~tool_result.quiet.raised
        /\ RoundTableOfReturn(tool_result.quiet)

\* the calls that return are as C35 says, and a call raises only when
\* simulate_round_table does
ReturnedResultForTickersWithSignals ==
    (pc = "returned" /\ tool_result.fn = "run_round_table") =>
        /\ ~tool_result.quiet.raised => RoundTableOfReturn(tool_result.quiet)
        /\ tool_result.quiet.raised =>
              \E t \in TickersWithSignals : tool_input.outcomes[t].raised

-----------------------------------------------------------------------------
(* Properties of the evaluators called with data (SpecScoring) *)

\* the EPS values of the line items that have one, the newest first
EpsValues ==
    LET with_eps == SelectSeq(agent_input.financial_line_items.items,
                              LAMBDA item : item.earnings_per_share # None)
    IN  [i \in DOMAIN with_eps |-> with_eps[i].earnings_per_share]

GrowthPointAwarded == agent_result.details = "EPS grew from earliest to latest period."

\* C36: given line items ordered newest first with at least 2 EPS values,
\* analyze_earnings_stability awards the EPS-growth point exactly when the EPS of
\* the latest period is greater than the EPS of the earliest period
C36_GrowthPointWhenEpsGrew ==
    (pc = "returned" /\ agent_input.evaluator = "analyze_earnings_stability"
        /\ Len(EpsValues) >= 2) =>
        (GrowthPointAwarded <=> EpsValues[1] > EpsValues[Len(EpsValues)])

\* what the code does: the point is awarded exactly when the last EPS value of the
\* list, that of the earliest period, is greater than the first one
GrowthPointWhenEpsShrank ==
    (pc = "returned" /\ agent_input.evaluator = "analyze_earnings_stability"
        /\ Len(EpsValues) >= 2) =>
        (GrowthPointAwarded <=> EpsValues[Len(EpsValues)] > EpsValues[1])

\* both operands are present and the denominator is not zero
SoundDivision(d) ==
    /\ d.numerator # None
    /\ d.denominator # None
    /\ d.denominator # 0

\* C37: every division an evaluator carries out has both operands present and a
\* denominator that is not zero, whatever fields of the input are null, zero or negative
C37_NoDivisionByZeroOrMissing ==
    pc = "returned" => \A d \in agent_result.divisions : SoundDivision(d)

\* an options call whose line items have a negative number of shares and a negative
\* revenue: the share price is not computed, the R&D ratio is
C37_Witness ==
    /\ pc = "returned"
    /\ agent_input.evaluator = "analyze_options_potential"
    /\ agent_input.financial_line_items.items[1].outstanding_shares = -100
    /\ agent_input.financial_line_items.items[1].revenue = -100
    /\ agent_input.financial_line_items.items[1].research_and_development = 100
    /\ agent_input.market_cap = 400
    /\ agent_result.divisions = {Division("rd_to_revenue", 100, -100)}

-----------------------------------------------------------------------------
(* Properties of the log sockets of the web server (SpecWeb) *)

\* C40: under every interleaving of a log broadcast with disconnecting clients,
\* broadcast_log does not raise and no logs handler raises in its cleanup: a socket
\* whose send failed is removed from websocket_clients once, also when its own
\* handler removes it at the same time
C40_RemovalNeverRaises ==
    /\ ~broadcast.raised
    /\ \A c \in Clients : handlers[c] # "raised"

\* a socket is never listed twice, and a socket whose handler has ended is not listed
ListedOnceWhileHandled ==
    /\ \A i, j \in DOMAIN websocket_clients :
          websocket_clients[i] = websocket_clients[j] => i = j
    /\ \A c \in Clients :
          handlers[c] \in {"idle", "done", "raised"} => c \notin Range(websocket_clients)

====
